---- MODULE Spec2Model ----
(***************************************************************************)
(* Model of the tutoring scheduler (src/src/main/python/tutor_schedular):  *)
(* the schedule view (view_schedule_manager.py), the student view          *)
(* (view_student_manager.py), the navigation of app.py and the JSON store  *)
(* of file_manager/core.py.                                                *)
(*                                                                         *)
(* A schedule entry is a Python dict: here a function from its keys        *)
(* ("name", "time", "duration", "status", "isPaid", "isDone", "note") to   *)
(* values, so that a key can be present or absent.                         *)
(*                                                                         *)
(* A time string "YYYY-MM-DD HH:MM" is the tuple of its zero-padded        *)
(* numeric fields <<Y, M, D, h, m>>; the empty string is <<>>.  Python's    *)
(* string comparison of two such strings is the lexicographic comparison   *)
(* of the tuples.  A tuple whose fields are no calendar date (month 13) is *)
(* a string strptime rejects.                                              *)
(***************************************************************************)
EXTENDS Integers, Sequences, FiniteSets, TLC

VARIABLES
    store_schedules,  \* resources/schedules/data.json
    store_students,   \* resources/students/data.json
    schedules,        \* ViewScheduleManager.schedules
    students,         \* ViewStudentManager.students
    view,             \* the widget StageMain.scene shows
    lastOp,           \* the handler that ran last, with its arguments
    loaded,           \* what load_schedules returned in the last refresh_data
    changes_made,     \* refresh_data's local flag, as of its last run
    nOps,             \* number of editing handlers run so far
    pc,               \* position of schedule_now: "idle", "loop", "done"
    idx,              \* schedule_now: number of loop iterations begun
    sorted_schedules, \* schedule_now's local sorted copy
    name_counts,      \* schedule_now's per-name counter
    calls,            \* arguments of the create_meeting calls made, in order
    results,          \* schedule_now's report lines
    ics_events,       \* schedule_now's accumulated calendar events
    exported,         \* the events written to tutor_schedule.ics, or "none"
    canceled,         \* QProgressDialog.wasCanceled()
    Calendar,         \* the ics library was imported (Calendar is not None)
    zoom_env,         \* the ZOOM_* variables set in the environment
    real_service,     \* ZoomProxy._real_service is not None
    token,            \* RealZoomService.token
    zoom_log,         \* the create_meeting calls made on the proxy alone
    email,            \* what open_email_dialog showed last
    schedules_b,      \* ViewScheduleManager.schedules of a second process
    view_b,           \* the widget the second process shows
    smtp,             \* RealGmailService's fields, read from the environment
    mail_last,        \* the last send_email call, with its SMTP traffic
    disk,             \* the files under resources/, as FileManager sees them
    fm_last           \* the FileManager method that ran last, with its result

vars == <<store_schedules, store_students, schedules, students, view, lastOp,
          loaded, changes_made, nOps, pc, idx, sorted_schedules, name_counts,
          calls, results, ics_events, exported, canceled, Calendar,
          zoom_env, real_service, token, zoom_log, email, schedules_b,
          view_b, smtp, mail_last, disk, fm_last>>

batchVars == <<pc, idx, sorted_schedules, name_counts, calls, results,
               ics_events, exported, canceled, Calendar>>

dataVars == <<store_schedules, store_students, schedules, students, loaded,
              changes_made, nOps>>

zoomVars == <<zoom_env, real_service, token, zoom_log>>

peerVars == <<schedules_b, view_b>>

\* what the handlers of the first process's schedule page leave alone
mailVars == <<smtp, mail_last>>

fileVars == <<disk, fm_last>>

sideVars == <<mailVars, fileVars>>

otherVars == <<zoomVars, email, peerVars, sideVars>>

(***************************************************************************)
(* Bounds of the model.                                                    *)
(***************************************************************************)
MaxOps == 2         \* editing handlers run in one session

(***************************************************************************)
(* Strings.                                                                *)
(***************************************************************************)
\* The person names of the model, in Python's string order.
NameOrder == <<"Ana", "Ben">>

NameSet == {NameOrder[i] : i \in 1..Len(NameOrder)}

Rank(s) == CHOOSE i \in 1..Len(NameOrder) : NameOrder[i] = s

\* a < b on the names of the model
StrLess(a, b) == Rank(a) < Rank(b)

\* a < b on tuples of numbers, as Python orders the strings they stand for
RECURSIVE LexLess(_, _)
LexLess(a, b) ==
    IF b = <<>> THEN FALSE
    ELSE IF a = <<>> THEN TRUE
    ELSE IF Head(a) # Head(b) THEN Head(a) < Head(b)
    ELSE LexLess(Tail(a), Tail(b))

(***************************************************************************)
(* datetime: strptime, timedelta, strftime.                                *)
(***************************************************************************)
IsLeap(y) == (y % 4 = 0) /\ ((y % 100 # 0) \/ (y % 400 = 0))

DaysInMonth(y, m) ==
    IF m = 2 THEN (IF IsLeap(y) THEN 29 ELSE 28)
    ELSE IF m \in {4, 6, 9, 11} THEN 30 ELSE 31

\* datetime.strptime(t, "%Y-%m-%d %H:%M") does not raise ValueError
Parses(t) ==
    /\ Len(t) = 5
    /\ t[1] \in 1..9999
    /\ t[2] \in 1..12
    /\ t[3] \in 1..DaysInMonth(t[1], t[2])
    /\ t[4] \in 0..23
    /\ t[5] \in 0..59

DaysBeforeYear(y) ==
    (y - 1) * 365 + ((y - 1) \div 4) - ((y - 1) \div 100) + ((y - 1) \div 400)

RECURSIVE DaysBeforeMonth(_, _)
DaysBeforeMonth(y, m) ==
    IF m = 1 THEN 0 ELSE DaysBeforeMonth(y, m - 1) + DaysInMonth(y, m - 1)

\* date.toordinal
ToOrdinal(y, m, d) == DaysBeforeYear(y) + DaysBeforeMonth(y, m) + d

\* date.fromordinal
FromOrdinal(n) ==
    LET y0 == (n \div 366) + 1
        y == CHOOSE yy \in y0..(y0 + 30) :
                 DaysBeforeYear(yy) < n /\ n <= DaysBeforeYear(yy + 1)
        r == n - DaysBeforeYear(y)
        m == CHOOSE mm \in 1..12 :
                 /\ DaysBeforeMonth(y, mm) < r
                 /\ r <= DaysBeforeMonth(y, mm) + DaysInMonth(y, mm)
    IN  <<y, m, r - DaysBeforeMonth(y, m)>>

\* AddDays on the day field alone, with no carry into the month
AddDaysNoCarry(t, n) == <<t[1], t[2], t[3] + n, t[4], t[5]>>

\* strftime(strptime(t) + timedelta(days = n)), for a t that parses
AddDays(t, n) ==
    LET ymd == FromOrdinal(ToOrdinal(t[1], t[2], t[3]) + n)
    IN  <<ymd[1], ymd[2], ymd[3], t[4], t[5]>>

\* strptime(t) + timedelta(days = n) does not raise OverflowError
TimedeltaFits(t, n) ==
    ToOrdinal(t[1], t[2], t[3]) + n <= ToOrdinal(9999, 12, 31)

(***************************************************************************)
(* Python dicts and lists.                                                 *)
(***************************************************************************)
Has(e, k) == k \in DOMAIN e

\* e[k] = v
Put(e, k, v) == [x \in (DOMAIN e) \cup {k} |-> IF x = k THEN v ELSE e[x]]

\* del e[k]
Del(e, k) == [x \in (DOMAIN e) \ {k} |-> e[x]]

\* del s[i]
RemoveAt(s, i) == SubSeq(s, 1, i - 1) \o SubSeq(s, i + 1, Len(s))

\* s[i] = v
SetAt(s, i, v) == [s EXCEPT ![i] = v]

Range(s) == {s[i] : i \in 1..Len(s)}

\* key=lambda x: (x['name'], x['time'])
KeyLess(a, b) ==
    \/ StrLess(a.name, b.name)
    \/ a.name = b.name /\ LexLess(a.time, b.time)

RECURSIVE InsertSorted(_, _)
InsertSorted(x, s) ==
    IF s = <<>> THEN <<x>>
    ELSE IF KeyLess(x, Head(s)) THEN <<x>> \o s
    ELSE <<Head(s)>> \o InsertSorted(x, Tail(s))

\* list.sort(key=lambda x: (x['name'], x['time'])): a stable sort
RECURSIVE SortSchedules(_)
SortSchedules(s) ==
    IF s = <<>> THEN <<>>
    ELSE InsertSorted(s[Len(s)], SortSchedules(SubSeq(s, 1, Len(s) - 1)))

(***************************************************************************)
(* refresh_data of the schedule view.                                      *)
(***************************************************************************)
\* MigrateEntry with the legacy status copied to isPaid alone
MigrateEntryPaidOnly(e) ==
    LET a == IF Has(e, "status") /\ ~Has(e, "isPaid")
             THEN Del(Put(e, "isPaid", e.status = "done"), "status")
             ELSE e
        b == IF ~Has(a, "isPaid") THEN Put(a, "isPaid", FALSE) ELSE a
        c == IF ~Has(b, "isDone") THEN Put(b, "isDone", FALSE) ELSE b
    IN  IF ~Has(c, "note") THEN Put(c, "note", "") ELSE c

\* the body of the migration loop, for one entry
MigrateEntry(e) ==
    LET a == IF Has(e, "status") /\ ~Has(e, "isPaid")
             THEN Del(Put(Put(e, "isPaid", e.status = "done"),
                          "isDone", e.status = "done"), "status")
             ELSE e
        b == IF ~Has(a, "isPaid") THEN Put(a, "isPaid", FALSE) ELSE a
        c == IF ~Has(b, "isDone") THEN Put(b, "isDone", FALSE) ELSE b
    IN  IF ~Has(c, "note") THEN Put(c, "note", "") ELSE c

\* the migration loop sets changes_made for this entry
EntryChanged(e) ==
    \/ Has(e, "status") /\ ~Has(e, "isPaid")
    \/ ~Has(e, "isPaid")
    \/ ~Has(e, "isDone")
    \/ ~Has(e, "note")

DefaultEntry(name, now) ==
    [name |-> name, time |-> now, duration |-> 60,
     isPaid |-> FALSE, isDone |-> FALSE, note |-> ""]

\* Synthesize without the test against the existing names
RECURSIVE SynthesizeAll(_, _, _)
SynthesizeAll(studs, existing, now) ==
    IF studs = <<>> THEN <<>>
    ELSE <<DefaultEntry(Head(studs).name, now)>>
         \o SynthesizeAll(Tail(studs), existing, now)

\* the entries the loop over the students appends; existing is the set of
\* names computed before the loop
RECURSIVE Synthesize(_, _, _)
Synthesize(studs, existing, now) ==
    IF studs = <<>> THEN <<>>
    ELSE (IF Head(studs).name \notin existing
          THEN <<DefaultEntry(Head(studs).name, now)>> ELSE <<>>)
         \o Synthesize(Tail(studs), existing, now)

\* what refresh_data leaves behind, given the two files and the clock
RefreshResult(file, studs, now) ==
    LET existing == {file[i].name : i \in 1..Len(file)}
        migrated == [i \in 1..Len(file) |-> MigrateEntry(file[i])]
        synth == Synthesize(studs, existing, now)
        all == migrated \o synth
        changed == (\E i \in 1..Len(file) : EntryChanged(file[i]))
                   \/ synth # <<>>
    IN  [loaded |-> file,
         changes_made |-> changed,
         file |-> IF changed THEN all ELSE file,
         schedules |-> SortSchedules(all)]

(***************************************************************************)
(* Inputs of the model: what the files hold when the program starts, what  *)
(* the user types, what the clock reads.                                   *)
(***************************************************************************)
\* "2025-01-01 10:00"
T1 == <<2025, 1, 1, 10, 0>>

\* "2025-12-29 09:00"
T2 == <<2025, 12, 29, 9, 0>>

\* "2024-02-25 10:00"
TLeap == <<2024, 2, 25, 10, 0>>

\* "2025-13-01 10:00", a string strptime rejects
TBad == <<2025, 13, 1, 10, 0>>

\* datetime.now().strftime("%Y-%m-%d %H:%M")
NowPool == {<<2024, 6, 15, 12, 0>>, <<2025, 6, 15, 12, 0>>}

\* dt_edit.dateTime().toString("yyyy-MM-dd HH:mm")
TimeInputs == {TLeap, T2}

\* spin.value(), within spin.setRange(1, 480)
DurationInputs == {90}

\* note_edit.toPlainText()
NoteInputs == {"hw"}

\* entries of data.json as earlier runs or earlier versions left them
InitEntries ==
    { [name |-> "Ana", time |-> T2, duration |-> 30,
       isPaid |-> TRUE, isDone |-> FALSE, note |-> "hw"],
      [name |-> "Ana", time |-> T1, duration |-> 60, status |-> "done"],
      [name |-> "Ben", time |-> TBad, duration |-> 45,
       isPaid |-> FALSE, isDone |-> TRUE, note |-> ""] }

SeqsUpTo(S, n) == UNION {[1..k -> S] : k \in 0..n}

Student(n) == [name |-> n, username |-> "", emailRecipients |-> <<>>]

\* the student files a run starts from: no student, or students added one
\* by one, not in the order of their names
InitStudents ==
    {<<>>, <<Student("Ben")>>, <<Student("Ben"), Student("Ana")>>}

\* the handlers that end with a call of refresh_data
RefreshingOps ==
    {"refresh_data", "edit_time", "edit_duration", "edit_note",
     "duplicate_schedule", "delete_schedule"}

\* lastOp: the handler, its row, and whether it is a refresh_data that
\* follows a refresh_data with no write to a file in between
Op(name, row) == [op |-> name, row |-> row, again |-> FALSE]

RefreshOp == [op |-> "refresh_data", row |-> 0,
              again |-> lastOp.op \in RefreshingOps]

(***************************************************************************)
(* State after construction: StageMain.__init__ shows the welcome page,    *)
(* both views hold empty lists.                                            *)
(***************************************************************************)
\* os.getenv's names of the Zoom credentials
ZoomCredentials == {"ZOOM_ACCOUNT_ID", "ZOOM_CLIENT_ID", "ZOOM_CLIENT_SECRET"}

\* RealGmailService.__init__ with the defaults of a complete environment
SmtpDefault == [username |-> TRUE, password |-> TRUE, security |-> "SSL"]

\* no send_email call was made
NoMail == [called |-> FALSE, attachments |-> <<>>, trace |-> <<>>,
           login |-> "unsent", send |-> "unsent", ok |-> FALSE,
           err |-> <<>>]

\* a path with no JSON text to read, by what is found there: nothing
\* ("missing"), a file that cannot be opened ("locked"), or bytes that are
\* not UTF-8 text ("bytes")
NoText(kind) == [kind |-> kind, text |-> [t |-> "none", v |-> <<>>]]

\* a template path in such a state
NoTemplate(kind) == [kind |-> kind, text |-> <<>>]

\* resources/ as _initialize leaves it: the directories, no file
FreshDisk == [schedules |-> NoText("missing"),
              students |-> NoText("missing"),
              template |-> NoTemplate("missing")]

\* no FileManager method has run
NoCall == [op |-> "none", arg |-> <<>>, raised |-> "none", ret |-> <<>>]

\* the context open_email_dialog hands to EmailDialog, before any was built
NoContext == [DATE |-> <<>>, RUNTIME |-> <<>>, STUDENT_NAME |-> "",
              STATUS_LIST |-> <<>>]

InitViews(files, people, libs, envs) ==
    /\ store_schedules \in files
    /\ Calendar \in libs
    /\ store_students \in people
    /\ zoom_env \in envs
    /\ real_service = FALSE
    /\ token = "None"
    /\ zoom_log = <<>>
    /\ email = [shown |-> "none", idx |-> 0, now |-> <<>>,
                context |-> NoContext]
    /\ schedules_b = <<>>
    /\ view_b = "welcome"
    /\ schedules = <<>>
    /\ students = <<>>
    /\ view = "welcome"
    /\ lastOp = Op("init", 0)
    /\ loaded = <<>>
    /\ changes_made = FALSE
    /\ nOps = 0
    /\ pc = "idle"
    /\ idx = 0
    /\ sorted_schedules = <<>>
    /\ name_counts = [n \in NameSet |-> 0]
    /\ calls = <<>>
    /\ results = <<>>
    /\ ics_events = <<>>
    /\ exported = "none"
    /\ canceled = FALSE

InitFrom(files, people, libs, envs) ==
    /\ InitViews(files, people, libs, envs)
    /\ smtp = SmtpDefault
    /\ mail_last = NoMail
    /\ disk = FreshDisk
    /\ fm_last = NoCall

\* the stores of the model, the ZOOM_* variables set
InitWith(files, libs) ==
    InitFrom(files, InitStudents, libs, {ZoomCredentials})

\* the lists of distinct entries of S, in every order
DistinctSeqs(S) ==
    {f \in SeqsUpTo(S, Cardinality(S)) :
        \A i, j \in 1..Len(f) : f[i] = f[j] => i = j}

Init == InitWith(DistinctSeqs(InitEntries), {TRUE})

(***************************************************************************)
(* Navigation (app.py).                                                    *)
(***************************************************************************)
\* refresh_data, run at the end of a handler that saved `file`
Reload(file, now, op) ==
    \E r \in {RefreshResult(file, store_students, now)} :
        /\ schedules' = r.schedules
        /\ store_schedules' = r.file
        /\ loaded' = r.loaded
        /\ changes_made' = r.changes_made
        /\ lastOp' = op

\* StageMain.go_to_schedule: on_start of the welcome page, on_back of the
\* student page
GoToSchedule ==
    /\ view \in {"welcome", "students"}
    /\ pc = "idle"
    /\ \E now \in NowPool : Reload(store_schedules, now, RefreshOp)
    /\ view' = "schedule"
    /\ UNCHANGED <<store_students, students, nOps>>
    /\ UNCHANGED batchVars
    /\ UNCHANGED otherVars

\* StageMain.go_to_welcome: on_back of the schedule page
GoToWelcome ==
    /\ view = "schedule"
    /\ pc = "idle"
    /\ view' = "welcome"
    /\ UNCHANGED <<lastOp>>
    /\ UNCHANGED dataVars
    /\ UNCHANGED batchVars
    /\ UNCHANGED otherVars

(***************************************************************************)
(* Editing handlers of the schedule view.                                  *)
(***************************************************************************)
\* a handler of row `row` can run: the table shows the row, no dialog is up
CanEdit(row) ==
    /\ view = "schedule"
    /\ pc = "idle"
    /\ nOps < MaxOps
    /\ row \in 1..Len(schedules)

\* handlers that save and do not reload
SaveOnly(list, op) ==
    /\ schedules' = list
    /\ store_schedules' = list
    /\ lastOp' = op
    /\ nOps' = nOps + 1
    /\ UNCHANGED <<store_students, students, loaded, changes_made, view>>
    /\ UNCHANGED batchVars
    /\ UNCHANGED otherVars

\* handlers that save and then call refresh_data
SaveAndRefresh(list, op) ==
    /\ \E now \in NowPool : Reload(list, now, op)
    /\ nOps' = nOps + 1
    /\ UNCHANGED <<store_students, students, view>>
    /\ UNCHANGED batchVars
    /\ UNCHANGED otherVars

\* toggle_paid(row, checked); the check box emits toggled(checked) with the
\* negation of the state it was given when the table was filled
TogglePaid(row) ==
    /\ CanEdit(row)
    /\ LET checked == ~schedules[row].isPaid
       IN  SaveOnly(SortSchedules(SetAt(schedules, row,
                        Put(schedules[row], "isPaid", checked))),
                    Op("toggle_paid", row))

\* ToggleDone setting both flags, as a toggle of the older status did
ToggleDoneBoth(row) ==
    /\ CanEdit(row)
    /\ LET checked == ~schedules[row].isDone
       IN  SaveOnly(SortSchedules(SetAt(schedules, row,
                        Put(Put(schedules[row], "isDone", checked),
                            "isPaid", checked))),
                    Op("toggle_done", row))

\* toggle_done(row, checked)
ToggleDone(row) ==
    /\ CanEdit(row)
    /\ LET checked == ~schedules[row].isDone
       IN  SaveOnly(SortSchedules(SetAt(schedules, row,
                        Put(schedules[row], "isDone", checked))),
                    Op("toggle_done", row))

\* on_cell_double_clicked(row, 1), dialog accepted
EditTime(row, new_time_str) ==
    /\ CanEdit(row)
    /\ SaveAndRefresh(SortSchedules(SetAt(schedules, row,
                           Put(schedules[row], "time", new_time_str))),
                      Op("edit_time", row))

\* on_cell_double_clicked(row, 2), dialog accepted
EditDuration(row, value) ==
    /\ CanEdit(row)
    /\ SaveAndRefresh(SortSchedules(SetAt(schedules, row,
                           Put(schedules[row], "duration", value))),
                      Op("edit_duration", row))

\* on_cell_double_clicked(row, 3), dialog accepted: saved without a sort
EditNote(row, new_note) ==
    /\ CanEdit(row)
    /\ SaveAndRefresh(SetAt(schedules, row,
                           Put(schedules[row], "note", new_note)),
                      Op("edit_note", row))

\* DuplicateEntry with a time that does not parse blanked instead of kept
DuplicateEntryBlank(e) ==
    LET a == Put(Put(e, "isPaid", FALSE), "isDone", FALSE)
        b == Put(a, "note", IF Has(e, "note") THEN e.note ELSE "")
        c == IF Has(b, "status") THEN Del(b, "status") ELSE b
    IN  IF Parses(c.time) /\ TimedeltaFits(c.time, 7)
        THEN Put(c, "time", AddDays(c.time, 7)) ELSE Put(c, "time", <<>>)

\* the entry duplicate_schedule appends
DuplicateEntry(e) ==
    LET a == Put(Put(e, "isPaid", FALSE), "isDone", FALSE)
        b == Put(a, "note", IF Has(e, "note") THEN e.note ELSE "")
        c == IF Has(b, "status") THEN Del(b, "status") ELSE b
    IN  IF Parses(c.time) /\ TimedeltaFits(c.time, 7)
        THEN Put(c, "time", AddDays(c.time, 7)) ELSE c

\* duplicate_schedule(row)
DuplicateSchedule(row) ==
    /\ CanEdit(row)
    /\ SaveAndRefresh(SortSchedules(Append(schedules,
                           DuplicateEntry(schedules[row]))),
                      Op("duplicate_schedule", row))

\* delete_schedule(row), confirmed
DeleteSchedule(row) ==
    /\ CanEdit(row)
    /\ SaveAndRefresh(SortSchedules(RemoveAt(schedules, row)),
                      Op("delete_schedule", row))

(***************************************************************************)
(* The student view.                                                       *)
(***************************************************************************)
\* str.strip() on a text given as its words and the blanks between them
RECURSIVE LStrip(_)
LStrip(text) ==
    IF text # <<>> /\ Head(text) = " " THEN LStrip(Tail(text)) ELSE text

RECURSIVE RStrip(_)
RStrip(text) ==
    IF text # <<>> /\ text[Len(text)] = " "
    THEN RStrip(SubSeq(text, 1, Len(text) - 1)) ELSE text

Strip(text) == RStrip(LStrip(text))

\* self.input_name.text()
NameTexts == {<<>>, <<" ">>, <<"Ana">>, <<" ", "Ben", " ">>}

RECURSIVE InsertStudent(_, _)
InsertStudent(x, s) ==
    IF s = <<>> THEN <<x>>
    ELSE IF StrLess(x.name, Head(s).name) THEN <<x>> \o s
    ELSE <<Head(s)>> \o InsertStudent(x, Tail(s))

\* self.students.sort(key=lambda x: x.get('name', '').lower()); the lower-
\* cased names of the model are ordered as the names are
RECURSIVE SortStudents(_)
SortStudents(s) ==
    IF s = <<>> THEN <<>>
    ELSE InsertStudent(s[Len(s)], SortStudents(SubSeq(s, 1, Len(s) - 1)))

\* StageMain.go_to_students: ViewStudentManager.refresh_data
GoToStudents ==
    /\ view = "schedule"
    /\ pc = "idle"
    /\ students' = SortStudents(store_students)
    /\ view' = "students"
    /\ UNCHANGED <<store_schedules, store_students, schedules, lastOp, loaded,
                   changes_made, nOps>>
    /\ UNCHANGED batchVars
    /\ UNCHANGED otherVars

\* add_student with `text` in the name field
AddStudent(text) ==
    /\ view = "students"
    /\ nOps < MaxOps
    /\ LET name == Strip(text)
       IN  IF name = <<>>
           THEN UNCHANGED <<store_students, students, lastOp, nOps>>
           ELSE LET saved == Append(students, Student(name[1]))
                IN  /\ store_students' = saved
                    /\ students' = SortStudents(saved)
                    /\ lastOp' = Op("add_student", 0)
                    /\ nOps' = nOps + 1
    /\ UNCHANGED <<store_schedules, schedules, loaded, changes_made, view>>
    /\ UNCHANGED batchVars
    /\ UNCHANGED otherVars

\* RemoveStudent deleting the entries of the removed student as well
RemoveStudentCascade(row) ==
    /\ view = "students"
    /\ nOps < MaxOps
    /\ row \in 1..Len(students)
    /\ LET saved == RemoveAt(students, row)
       IN  /\ store_students' = saved
           /\ students' = SortStudents(saved)
           /\ store_schedules' =
                  SelectSeq(store_schedules,
                            LAMBDA e : e.name # students[row].name)
    /\ lastOp' = Op("remove_student", row)
    /\ nOps' = nOps + 1
    /\ UNCHANGED <<schedules, loaded, changes_made, view>>
    /\ UNCHANGED batchVars
    /\ UNCHANGED otherVars

\* remove_student with row `row` selected, confirmed
RemoveStudent(row) ==
    /\ view = "students"
    /\ nOps < MaxOps
    /\ row \in 1..Len(students)
    /\ LET saved == RemoveAt(students, row)
       IN  /\ store_students' = saved
           /\ students' = SortStudents(saved)
    /\ lastOp' = Op("remove_student", row)
    /\ nOps' = nOps + 1
    /\ UNCHANGED <<store_schedules, schedules, loaded, changes_made, view>>
    /\ UNCHANGED batchVars
    /\ UNCHANGED otherVars

(***************************************************************************)
(* The editing session: one visit of the schedule page, with every editing *)
(* handler of its table.                                                   *)
(***************************************************************************)
Rows == 1..(Cardinality(InitEntries) + Len(NameOrder) + MaxOps)

Next ==
    \/ GoToSchedule
    \/ \E row \in Rows : TogglePaid(row)
    \/ \E row \in Rows : ToggleDone(row)
    \/ \E row \in Rows, t \in TimeInputs : EditTime(row, t)
    \/ \E row \in Rows, d \in DurationInputs : EditDuration(row, d)
    \/ \E row \in Rows, n \in NoteInputs : EditNote(row, n)
    \/ \E row \in Rows : DuplicateSchedule(row)
    \/ \E row \in Rows : DeleteSchedule(row)

Spec == Init /\ [][Next]_vars

(***************************************************************************)
(* Loading: navigation and the student view, from stores whose entries     *)
(* carry any subset of the optional keys.                                  *)
(***************************************************************************)
Opt(V) == {<<>>} \cup {<<v>> : v \in V}

WithOpt(e, k, o) == IF o = <<>> THEN e ELSE Put(e, k, o[1])

\* one entry with every combination of status, isPaid, isDone and note
ShapedEntries ==
    { WithOpt(WithOpt(WithOpt(WithOpt(
          [name |-> "Ben", time |-> T1, duration |-> 45],
          "status", st), "isPaid", p), "isDone", d), "note", n) :
      st \in Opt({"done", "pending"}), p \in Opt(BOOLEAN),
      d \in Opt(BOOLEAN), n \in Opt({"", "hw"}) }

LoadFiles ==
    {<<e>> : e \in ShapedEntries}
    \cup {<<e, [name |-> "Ana", time |-> T2, duration |-> 60,
                status |-> "done"]>> : e \in ShapedEntries}

InitLoad == InitWith(LoadFiles, {TRUE})

NextLoad ==
    \/ GoToSchedule
    \/ GoToWelcome
    \/ GoToStudents
    \/ \E text \in NameTexts : AddStudent(text)
    \/ \E row \in Rows : RemoveStudent(row)

SpecLoad == InitLoad /\ [][NextLoad]_vars

(***************************************************************************)
(* The Zoom service (zoomproxy/core.py).  The answers of the Zoom servers  *)
(* to the requests of one create_meeting call are its input r: the status  *)
(* of the token request (auth), of the meeting request (post), and of the  *)
(* two requests made after a 401 (reauth, repost); "exc" is requests.post  *)
(* raising an exception.                                                   *)
(***************************************************************************)
AuthAnswers == {"200", "401", "exc"}

PostAnswers == {"201", "401", "500", "exc"}

Answers == [auth : AuthAnswers, post : PostAnswers,
            reauth : AuthAnswers, repost : PostAnswers]

\* the outcome of a call: its result dict, self.token afterwards and the
\* requests sent, in order
Outcome(res, tok, sent) == [res |-> res, token |-> tok, sent |-> sent]

\* the part of RealZoomService.create_meeting inside `try`, after a first
\* answer 401: the token is fetched again and the request sent once more
RetryOnce(topic, r, sent) ==
    IF r.reauth # "200"
    THEN Outcome([error |-> <<"API Error", r.post>>], "tok",
                 sent \o <<"token">>)
    ELSE IF r.repost = "201"
    THEN Outcome([join_url |-> <<"url", topic>>], "tok",
                 sent \o <<"token", "meeting">>)
    ELSE IF r.repost = "exc"
    THEN Outcome([error |-> <<"Request Error">>], "tok",
                 sent \o <<"token", "meeting">>)
    ELSE Outcome([error |-> <<"API Error", r.repost>>], "tok",
                 sent \o <<"token", "meeting">>)

\* RealCreateMeeting sending the request again after any answer but 201
RealCreateMeetingRetryAll(tok, topic, start_time_str, r) ==
    IF tok = "None" /\ r.auth # "200"
    THEN Outcome([error |-> <<"Authentication failed">>], tok, <<"token">>)
    ELSE LET sent == IF tok = "None" THEN <<"token">> ELSE <<>>
         IN  IF ~Parses(start_time_str)
             THEN Outcome([error |-> <<"Date error">>], "tok", sent)
             ELSE IF r.post = "exc"
             THEN Outcome([error |-> <<"Request Error">>], "tok",
                          Append(sent, "meeting"))
             ELSE IF r.post = "201"
             THEN Outcome([join_url |-> <<"url", topic>>], "tok",
                          Append(sent, "meeting"))
             ELSE RetryOnce(topic, r, Append(sent, "meeting"))

\* RealCreateMeeting going on to the meeting request without a token
RealCreateMeetingUnauthenticated(tok, topic, start_time_str, r) ==
    LET sent == IF tok = "None" THEN <<"token">> ELSE <<>>
    IN  IF ~Parses(start_time_str)
        THEN Outcome([error |-> <<"Date error">>], "tok", sent)
        ELSE IF r.post = "201"
        THEN Outcome([join_url |-> <<"url", topic>>], "tok",
                     Append(sent, "meeting"))
        ELSE Outcome([error |-> <<"API Error", r.post>>], "tok",
                     Append(sent, "meeting"))

\* RealZoomService.create_meeting(topic, start_time_str, duration_min) with
\* self.token = tok; a token answer 200 carries an access_token
RealCreateMeeting(tok, topic, start_time_str, r) ==
    IF tok = "None" /\ r.auth # "200"
    THEN Outcome([error |-> <<"Authentication failed">>], tok, <<"token">>)
    ELSE LET sent == IF tok = "None" THEN <<"token">> ELSE <<>>
         IN  IF ~Parses(start_time_str)
             THEN Outcome([error |-> <<"Date error">>], "tok", sent)
             ELSE IF r.post = "exc"
             THEN Outcome([error |-> <<"Request Error">>], "tok",
                          Append(sent, "meeting"))
             ELSE IF r.post = "201"
             THEN Outcome([join_url |-> <<"url", topic>>], "tok",
                          Append(sent, "meeting"))
             ELSE IF r.post = "401"
             THEN RetryOnce(topic, r, Append(sent, "meeting"))
             ELSE Outcome([error |-> <<"API Error", r.post>>], "tok",
                          Append(sent, "meeting"))

\* the outcome of a call on the proxy: the outcome of the real service's
\* call, and the results of the calls made on the real service (real)
Delegated(out) ==
    [res |-> out.res, token |-> out.token, sent |-> out.sent,
     real |-> <<out.res>>]

NotDelegated(res, tok) ==
    [res |-> res, token |-> tok, sent |-> <<>>, real |-> <<>>]

\* ProxyCreateMeeting looking at the account and the client id alone
ProxyCreateMeetingTwoOfThree(env, tok, topic, start_time_str, r) ==
    IF ~({"ZOOM_ACCOUNT_ID", "ZOOM_CLIENT_ID"} \subseteq env)
    THEN NotDelegated(
             [error |-> <<"Missing ZOOM credentials in .env file.">>], tok)
    ELSE LET out == RealCreateMeeting(tok, topic, start_time_str, r)
         IN  Delegated(out)

\* ZoomProxy.create_meeting(topic, start_time_str, duration_min) with env
\* the ZOOM_* variables that os.getenv finds set to a non-empty value
ProxyCreateMeeting(env, tok, topic, start_time_str, r) ==
    IF ~(ZoomCredentials \subseteq env)
    THEN NotDelegated(
             [error |-> <<"Missing ZOOM credentials in .env file.">>], tok)
    ELSE LET out == RealCreateMeeting(tok, topic, start_time_str, r)
         IN  Delegated(out)

(***************************************************************************)
(* schedule_now: the batch that creates the meetings and exports the       *)
(* calendar.  The loop runs one iteration per step, since the progress     *)
(* dialog lets the user cancel between iterations.                         *)
(***************************************************************************)
RECURSIVE Digits(_)
Digits(n) == IF n < 10 THEN <<n>> ELSE Append(Digits(n \div 10), n % 10)

\* f"{count:02d}", as the digits it prints
Fmt02(count) == IF count < 10 THEN <<0, count>> ELSE Digits(count)

\* topic = f"{entry['name']}{count:02d}"
Topic(name, count) == <<name, Fmt02(count)>>

\* what the Zoom side does with one create_meeting call of the batch
RemoteOutcomes == {"created", "api_error", "auth_failed"}

\* the answers of the Zoom servers that make up such an outcome
AnswersOf(remote) ==
    [auth |-> IF remote = "auth_failed" THEN "401" ELSE "200",
     post |-> IF remote = "api_error" THEN "500" ELSE "201",
     reauth |-> "200", repost |-> "201"]

\* self.zoom_proxy.create_meeting(topic, entry['time'], ...) of the batch
CreateMeeting(topic, start_time_str, remote) ==
    ProxyCreateMeeting(zoom_env, token, topic, start_time_str,
                       AnswersOf(remote))

\* status = "OK" if "join_url" in res else f"Err: {res.get('error')}"
ResultLine(topic, res) ==
    [topic |-> topic,
     status |-> IF Has(res, "join_url") THEN <<"OK">> ELSE <<"Err", res.error>>]

\* the Event the loop builds; description stays unset without a join_url
MakeEvent(topic, entry, res) ==
    LET e == [name |-> topic, begin |-> entry.time,
              duration |-> entry.duration]
    IN  IF Has(res, "join_url")
        THEN Put(e, "description", <<"Zoom Link", res.join_url>>) ELSE e

\* lastOp of schedule_now: `again` tells that the handler before it was
\* schedule_now too
ScheduleOp == [op |-> "schedule_now", row |-> 0,
               again |-> lastOp.op = "schedule_now"]

\* ScheduleStart with the counters kept from the batch before
ScheduleStartKeepCounts ==
    /\ view = "schedule"
    /\ pc = "idle"
    /\ schedules # <<>>
    /\ pc' = "loop"
    /\ idx' = 0
    /\ sorted_schedules' = SortSchedules(schedules)
    /\ name_counts' = name_counts
    /\ calls' = <<>>
    /\ results' = <<>>
    /\ ics_events' = <<>>
    /\ canceled' = FALSE
    /\ lastOp' = ScheduleOp
    /\ UNCHANGED <<exported, Calendar, view>>
    /\ UNCHANGED dataVars
    /\ UNCHANGED otherVars

\* schedule_now up to the loop: the list is not empty, the user confirms
ScheduleStart ==
    /\ view = "schedule"
    /\ pc = "idle"
    /\ schedules # <<>>
    /\ pc' = "loop"
    /\ idx' = 0
    /\ sorted_schedules' = SortSchedules(schedules)
    /\ name_counts' = [n \in NameSet |-> 0]
    /\ calls' = <<>>
    /\ results' = <<>>
    /\ ics_events' = <<>>
    /\ canceled' = FALSE
    /\ lastOp' = ScheduleOp
    /\ UNCHANGED <<exported, Calendar, view>>
    /\ UNCHANGED dataVars
    /\ UNCHANGED otherVars

\* ics_events with the Event built from one successful call only
ItemEventsOnSuccess(evs, topic, entry, res) ==
    IF Calendar /\ Parses(entry.time) /\ Has(res, "join_url")
    THEN Append(evs, MakeEvent(topic, entry, res)) ELSE evs

\* ics_events after one iteration: strptime raising ValueError skips the
\* Event, a missing ics library skips the whole block
ItemEvents(evs, topic, entry, res) ==
    IF Calendar /\ Parses(entry.time)
    THEN Append(evs, MakeEvent(topic, entry, res)) ELSE evs

\* the iteration reaches progress.setValue (no `continue` before it)
ReachesSetValue(entry) == ~(Calendar /\ ~Parses(entry.time))

\* ScheduleItem leaving the loop at the first failed call
ScheduleItemAbort(remote, click) ==
    /\ pc = "loop"
    /\ idx < Len(sorted_schedules)
    /\ ~canceled
    /\ LET entry == sorted_schedules[idx + 1]
           count == name_counts[entry.name] + 1
           topic == Topic(entry.name, count)
           out == CreateMeeting(topic, entry.time, remote)
           res == out.res
       IN  /\ name_counts' = [name_counts EXCEPT ![entry.name] = count]
           /\ token' = out.token
           /\ real_service' = (real_service \/ out.real # <<>>)
           /\ calls' = Append(calls, [topic |-> topic, time |-> entry.time,
                                      duration |-> entry.duration])
           /\ results' = Append(results, ResultLine(topic, res))
           /\ ics_events' = ItemEvents(ics_events, topic, entry, res)
           /\ canceled' = IF ReachesSetValue(entry) THEN click ELSE canceled
           /\ idx' = IF Has(res, "join_url")
                     THEN idx + 1 ELSE Len(sorted_schedules)
    /\ UNCHANGED <<pc, sorted_schedules, exported, Calendar, view, lastOp>>
    /\ UNCHANGED dataVars
    /\ UNCHANGED <<zoom_env, zoom_log, email, peerVars, sideVars>>

\* ScheduleItem with no test of progress.wasCanceled()
ScheduleItemNoCancel(remote, click) ==
    /\ pc = "loop"
    /\ idx < Len(sorted_schedules)
    /\ LET entry == sorted_schedules[idx + 1]
           count == name_counts[entry.name] + 1
           topic == Topic(entry.name, count)
           out == CreateMeeting(topic, entry.time, remote)
           res == out.res
       IN  /\ name_counts' = [name_counts EXCEPT ![entry.name] = count]
           /\ token' = out.token
           /\ real_service' = (real_service \/ out.real # <<>>)
           /\ calls' = Append(calls, [topic |-> topic, time |-> entry.time,
                                      duration |-> entry.duration])
           /\ results' = Append(results, ResultLine(topic, res))
           /\ ics_events' = ItemEvents(ics_events, topic, entry, res)
           /\ canceled' = IF ReachesSetValue(entry) THEN click ELSE canceled
    /\ idx' = idx + 1
    /\ UNCHANGED <<pc, sorted_schedules, exported, Calendar, view, lastOp>>
    /\ UNCHANGED dataVars
    /\ UNCHANGED <<zoom_env, zoom_log, email, peerVars, sideVars>>

\* one iteration of the loop; `click` says that the user has pressed Cancel
\* by the time progress.setValue processes the events
ScheduleItem(remote, click) ==
    /\ pc = "loop"
    /\ idx < Len(sorted_schedules)
    /\ ~canceled
    /\ LET entry == sorted_schedules[idx + 1]
           count == name_counts[entry.name] + 1
           topic == Topic(entry.name, count)
           out == CreateMeeting(topic, entry.time, remote)
           res == out.res
       IN  /\ name_counts' = [name_counts EXCEPT ![entry.name] = count]
           /\ token' = out.token
           /\ real_service' = (real_service \/ out.real # <<>>)
           /\ calls' = Append(calls, [topic |-> topic, time |-> entry.time,
                                      duration |-> entry.duration])
           /\ results' = Append(results, ResultLine(topic, res))
           /\ ics_events' = ItemEvents(ics_events, topic, entry, res)
           /\ canceled' = IF ReachesSetValue(entry) THEN click ELSE canceled
    /\ idx' = idx + 1
    /\ UNCHANGED <<pc, sorted_schedules, exported, Calendar, view, lastOp>>
    /\ UNCHANGED dataVars
    /\ UNCHANGED <<zoom_env, zoom_log, email, peerVars, sideVars>>

\* after the loop: the export and the report; `written` says that writing
\* the file succeeded
ScheduleFinish(written) ==
    /\ pc = "loop"
    /\ idx = Len(sorted_schedules) \/ canceled
    /\ IF Calendar /\ ics_events # <<>>
       THEN IF written
            THEN /\ exported' = ics_events
                 /\ results' = Append(results, [export |-> "exported"])
            ELSE /\ results' = Append(results, [export |-> "failed"])
                 /\ UNCHANGED exported
       ELSE IF ~Calendar
            THEN /\ results' = Append(results, [export |-> "skipped"])
                 /\ UNCHANGED exported
            ELSE UNCHANGED <<results, exported>>
    /\ pc' = "done"
    /\ UNCHANGED <<idx, sorted_schedules, name_counts, calls, ics_events,
                   canceled, Calendar, view, lastOp>>
    /\ UNCHANGED dataVars
    /\ UNCHANGED otherVars

\* the report box is closed
ScheduleClose ==
    /\ pc = "done"
    /\ pc' = "idle"
    /\ UNCHANGED <<idx, sorted_schedules, name_counts, calls, results,
                   ics_events, exported, canceled, Calendar, view, lastOp>>
    /\ UNCHANGED dataVars
    /\ UNCHANGED otherVars

InitBatch ==
    InitFrom(DistinctSeqs(InitEntries), InitStudents, BOOLEAN,
             {ZoomCredentials, {}})

NextBatch ==
    \/ GoToSchedule
    \/ GoToWelcome
    \/ ScheduleStart
    \/ \E remote \in RemoteOutcomes, click \in BOOLEAN :
           ScheduleItem(remote, click)
    \/ \E written \in BOOLEAN : ScheduleFinish(written)
    \/ ScheduleClose

SpecBatch == InitBatch /\ [][NextBatch]_vars

(***************************************************************************)
(* The Zoom proxy on its own: create_meeting calls with any answers of the *)
(* Zoom servers, the token kept from call to call.                         *)
(***************************************************************************)
\* the answers the call heard: those of the requests that were sent
Heard(r, tok, out) ==
    LET posted == \E k \in 1..Len(out.sent) : out.sent[k] = "meeting"
    IN  [auth |-> IF out.real # <<>> /\ tok = "None"
                  THEN r.auth ELSE "unsent",
         post |-> IF posted THEN r.post ELSE "unsent",
         reauth |-> IF posted /\ r.post = "401" THEN r.reauth ELSE "unsent"]

\* one create_meeting call on the proxy
ZoomCall(topic, start_time_str, r) ==
    /\ Len(zoom_log) < MaxOps
    /\ \E out \in {ProxyCreateMeeting(zoom_env, token, topic,
                                       start_time_str, r)} :
           /\ token' = out.token
           /\ real_service' = (real_service \/ out.real # <<>>)
           /\ zoom_log' = Append(zoom_log,
                  [start_time_str |-> start_time_str, token |-> token,
                   auth |-> Heard(r, token, out).auth,
                   post |-> Heard(r, token, out).post,
                   reauth |-> Heard(r, token, out).reauth,
                   res |-> out.res, sent |-> out.sent, real |-> out.real])
    /\ UNCHANGED <<zoom_env, email, view, lastOp>>
    /\ UNCHANGED <<dataVars, batchVars, peerVars, sideVars>>

InitZoom == InitFrom({<<>>}, {<<>>}, {TRUE}, SUBSET ZoomCredentials)

NextZoom ==
    \E start_time_str \in {T1, TBad}, r \in Answers :
        ZoomCall(Topic("Ana", 1), start_time_str, r)

SpecZoom == InitZoom /\ [][NextZoom]_vars

(***************************************************************************)
(* The mail service (gmailproxy/core.py).  An attachment path is what the  *)
(* file system holds there: a "file", nothing ("missing"), or a file that  *)
(* open() cannot read ("unreadable").  The SMTP server's behaviour in one  *)
(* call is the input srv: what the connection, starttls, login and         *)
(* send_message do ("ok", or the exception they raise).  The result        *)
(* (False, message) is ok = FALSE with the message as a tuple, and         *)
(* (True, None) is ok = TRUE with the empty tuple.                         *)
(***************************************************************************)
PathKinds == {"file", "missing", "unreadable"}

\* the longest attachments list of a call
MaxAttachments == 2

Servers == [connect : {"ok", "error"}, starttls : {"ok", "error"},
            login : {"ok", "auth_error", "error"}, send : {"ok", "error"}]

\* the environments RealGmailService.__init__ may read
Smtps == [username : BOOLEAN, password : BOOLEAN,
          security : {"SSL", "STARTTLS", "NONE"}]

\* the attachment loop looking at the first path alone
AttachmentProblemFirstOnly(attachments) ==
    IF attachments = <<>> \/ attachments[1] = "file" THEN <<>>
    ELSE IF attachments[1] = "missing" THEN <<"Attachment not found", 1>>
    ELSE <<"Failed to attach", 1>>

\* the attachment loop: the message of its first early return, for the
\* path at that position, or <<>> when every path was attached
AttachmentProblem(attachments) ==
    IF \A i \in 1..Len(attachments) : attachments[i] = "file" THEN <<>>
    ELSE LET i == CHOOSE k \in 1..Len(attachments) :
                      /\ attachments[k] # "file"
                      /\ \A j \in 1..(k - 1) : attachments[j] = "file"
         IN  IF attachments[i] = "missing"
             THEN <<"Attachment not found", i>>
             ELSE <<"Failed to attach", i>>

\* the STARTTLS branch going to login without starttls
StepsPlainLogin(security) ==
    IF security = "SSL" THEN <<"SMTP_SSL", "login", "send_message">>
    ELSE <<"SMTP", "login", "send_message">>

\* the calls the `try` block makes on smtplib, in order, by self.security
Steps(security) ==
    IF security = "SSL" THEN <<"SMTP_SSL", "login", "send_message">>
    ELSE IF security = "STARTTLS"
    THEN <<"SMTP", "ehlo", "starttls", "ehlo", "login", "send_message">>
    ELSE <<"SMTP", "login", "send_message">>

\* what the server does with one of these calls
Answer(step, srv) ==
    CASE step \in {"SMTP_SSL", "SMTP"} -> srv.connect
      [] step = "ehlo" -> "ok"
      [] step = "starttls" -> srv.starttls
      [] step = "login" -> srv.login
      [] step = "send_message" -> srv.send

\* the `try` block: the calls are made until one raises; leaving the `with`
\* block of an open connection quits it
Exchange(security, srv) ==
    LET steps == Steps(security)
        failed == {k \in 1..Len(steps) : Answer(steps[k], srv) # "ok"}
        last == IF failed = {} THEN Len(steps)
                ELSE CHOOSE k \in failed : \A j \in failed : k <= j
        made == SubSeq(steps, 1, last)
        raised == IF failed = {} THEN "ok" ELSE Answer(steps[last], srv)
    IN  [trace |-> IF last = 1 /\ raised # "ok" THEN made
                   ELSE Append(made, "quit"),
         ok |-> raised = "ok",
         err |-> IF raised = "ok" THEN <<>>
                 ELSE IF raised = "auth_error"
                 THEN <<"Authentication failed. Check username/app password.">>
                 ELSE <<"Email Error", steps[last]>>]

\* RealGmailService.send_email(recipients, subject, body_html, attachments)
SendEmailResult(env, attachments, srv) ==
    IF ~env.username \/ ~env.password
    THEN [trace |-> <<>>, ok |-> FALSE,
          err |-> <<"Missing SMTP_USERNAME or SMTP_PASSWORD in environment.">>]
    ELSE IF AttachmentProblem(attachments) # <<>>
    THEN [trace |-> <<>>, ok |-> FALSE,
          err |-> AttachmentProblem(attachments)]
    ELSE Exchange(env.security, srv)

\* one send_email call on the service
SendEmail(attachments, srv) ==
    /\ \E out \in {SendEmailResult(smtp, attachments, srv)} :
           mail_last' =
               [called |-> TRUE, attachments |-> attachments,
                trace |-> out.trace,
                login |-> IF \E k \in 1..Len(out.trace) : out.trace[k] = "login"
                          THEN srv.login ELSE "unsent",
                send |-> IF \E k \in 1..Len(out.trace) :
                                out.trace[k] = "send_message"
                         THEN srv.send ELSE "unsent",
                ok |-> out.ok, err |-> out.err]
    /\ UNCHANGED <<smtp, fileVars, zoomVars, email, peerVars, view, lastOp>>
    /\ UNCHANGED <<dataVars, batchVars>>

InitMail ==
    /\ InitViews({<<>>}, {<<>>}, {TRUE}, {ZoomCredentials})
    /\ smtp \in Smtps
    /\ mail_last = NoMail
    /\ disk = FreshDisk
    /\ fm_last = NoCall

NextMail ==
    \E attachments \in SeqsUpTo(PathKinds, MaxAttachments), srv \in Servers :
        SendEmail(attachments, srv)

SpecMail == InitMail /\ [][NextMail]_vars

(***************************************************************************)
(* The report of one student: open_email_dialog of the student view.       *)
(***************************************************************************)
\* get_status_emoji with the paid flag ignored
get_status_emoji_done_only(is_paid, is_done) ==
    IF is_done THEN <<"check_mark">> ELSE <<"hourglass">>

\* get_status_emoji(is_paid, is_done): the emoji of the returned string
get_status_emoji(is_paid, is_done) ==
    IF is_paid /\ is_done THEN <<"check_mark">>
    ELSE IF is_paid /\ ~is_done THEN <<"hourglass">>
    ELSE IF ~is_paid /\ is_done THEN <<"arrows", "check_mark">>
    ELSE <<"arrows">>

\* a student with a user name and e-mail addresses
StudentWith(name, username, emails) ==
    [name |-> name, username |-> username, emailRecipients |-> emails]

RECURSIVE InsertByTime(_, _)
InsertByTime(x, s) ==
    IF s = <<>> THEN <<x>>
    ELSE IF LexLess(x.time, Head(s).time) THEN <<x>> \o s
    ELSE <<Head(s)>> \o InsertByTime(x, Tail(s))

\* student_scheds.sort(key=lambda x: x['time']), a stable sort
RECURSIVE SortByTime(_)
SortByTime(s) ==
    IF s = <<>> THEN <<>>
    ELSE InsertByTime(s[Len(s)], SortByTime(SubSeq(s, 1, Len(s) - 1)))

\* StudentScheds without the filter on the name
StudentSchedsAll(file, student) == SortByTime(file)

\* student_scheds: the entries of the student, by time
StudentScheds(file, student) ==
    SortByTime(SelectSeq(file, LAMBDA e : e.name = student.name))

\* the flags open_email_dialog reads from an entry
ReportPaid(e) ==
    IF Has(e, "isPaid") THEN e.isPaid
    ELSE Has(e, "status") /\ e.status = "done"

ReportDone(e) ==
    IF Has(e, "isPaid") THEN Has(e, "isDone") /\ e.isDone
    ELSE Has(e, "status") /\ e.status = "done"

\* the line of the i-th entry (i counts from 1):
\* f"{date_str},{time_str},{full_ref},{s['duration']} {icon}"
StatusLine(student, i, e) ==
    LET enum_name == <<student.name, Fmt02(i)>>
    IN  [date_str |-> IF Parses(e.time) THEN SubSeq(e.time, 1, 3) ELSE e.time,
         time_str |-> IF Parses(e.time) THEN SubSeq(e.time, 4, 5) ELSE <<>>,
         full_ref |-> IF student.username # ""
                      THEN Append(enum_name, student.username)
                      ELSE enum_name,
         duration |-> Digits(e.duration),
         icon |-> get_status_emoji(ReportPaid(e), ReportDone(e))]

\* LatestRuntime taken from the first entry
LatestRuntimeFirst(scheds) ==
    IF scheds = <<>> THEN <<0>> ELSE Digits(scheds[1].duration)

\* latest_runtime after the loop: "0", or str(duration) of the last entry
LatestRuntime(scheds) ==
    IF scheds = <<>> THEN <<0>> ELSE Digits(scheds[Len(scheds)].duration)

\* strftime("%m/%d/%y") of a time
DateMDY(t) == <<t[2], t[3], t[1] % 100>>

\* the template context of the dialog
EmailContext(file, student, now) ==
    LET scheds == StudentScheds(file, student)
    IN  [DATE |-> DateMDY(now),
         RUNTIME |-> LatestRuntime(scheds),
         STUDENT_NAME |-> student.name,
         STATUS_LIST |-> [i \in 1..Len(scheds) |->
                             StatusLine(student, i, scheds[i])]]

\* open_email_dialog(idx), the dialog closed again; row idx + 1 of the list
OpenEmailDialog(row) ==
    /\ view = "students"
    /\ row \in 1..Len(students)
    /\ IF students[row].emailRecipients = <<>>
       THEN email' = [shown |-> "warning", idx |-> row, now |-> <<>>,
                      context |-> NoContext]
       ELSE \E now \in NowPool :
                email' = [shown |-> "email", idx |-> row, now |-> now,
                          context |-> EmailContext(store_schedules,
                                                   students[row], now)]
    /\ lastOp' = Op("open_email_dialog", row)
    /\ UNCHANGED view
    /\ UNCHANGED <<dataVars, batchVars, zoomVars, peerVars, sideVars>>

\* stored entries of one student with every pair of flags, and of another
ReportEntries ==
    InitEntries \cup
    { [name |-> "Ana", time |-> TLeap, duration |-> 120,
       isPaid |-> FALSE, isDone |-> TRUE, note |-> ""],
      [name |-> "Ana", time |-> TBad, duration |-> 15,
       isPaid |-> FALSE, isDone |-> FALSE, note |-> ""] }

ReportStudents ==
    { <<StudentWith("Ben", "", <<"ben@x.org">>),
        StudentWith("Ana", "ana7", <<"ana@x.org", "mum@x.org">>)>>,
      <<StudentWith("Ana", "", <<"ana@x.org">>), Student("Ben")>> }

InitReport ==
    InitFrom(DistinctSeqs(ReportEntries), ReportStudents, {TRUE},
             {ZoomCredentials})

NextReport ==
    \/ GoToSchedule
    \/ GoToStudents
    \/ \E row \in Rows : OpenEmailDialog(row)

SpecReport == InitReport /\ [][NextReport]_vars

(***************************************************************************)
(* Two processes of the application over the same files.  Each handler of  *)
(* a process runs to its end before the other process runs one: a handler  *)
(* reads the schedule file at most once, before it writes it.              *)
(***************************************************************************)
\* go_to_schedule of the second process: its refresh_data
GoToScheduleB ==
    /\ view_b = "welcome"
    /\ \E now \in NowPool :
           \E r \in {RefreshResult(store_schedules, store_students, now)} :
               /\ schedules_b' = r.schedules
               /\ store_schedules' = r.file
    /\ view_b' = "schedule"
    /\ lastOp' = Op("b.refresh_data", 0)
    /\ UNCHANGED <<store_students, schedules, students, loaded, changes_made,
                   nOps, view>>
    /\ UNCHANGED <<batchVars, zoomVars, email, sideVars>>

\* SaveOnlyB that writes the file only if it still holds what was loaded
SaveOnlyBChecked(list, op) ==
    /\ schedules_b' = list
    /\ store_schedules' =
           IF store_schedules = schedules_b THEN list ELSE store_schedules
    /\ lastOp' = op
    /\ nOps' = nOps + 1
    /\ UNCHANGED <<store_students, schedules, students, loaded, changes_made,
                   view, view_b>>
    /\ UNCHANGED <<batchVars, zoomVars, email, sideVars>>

\* the end of toggle_paid and toggle_done in the second process:
\* fm.save_schedules(self.schedules)
SaveOnlyB(list, op) ==
    /\ schedules_b' = list
    /\ store_schedules' = list
    /\ lastOp' = op
    /\ nOps' = nOps + 1
    /\ UNCHANGED <<store_students, schedules, students, loaded, changes_made,
                   view, view_b>>
    /\ UNCHANGED <<batchVars, zoomVars, email, sideVars>>

CanEditB(row) ==
    /\ view_b = "schedule"
    /\ nOps < MaxOps
    /\ row \in 1..Len(schedules_b)

\* toggle_paid(row, checked) in the second process
TogglePaidB(row) ==
    /\ CanEditB(row)
    /\ LET checked == ~schedules_b[row].isPaid
       IN  SaveOnlyB(SortSchedules(SetAt(schedules_b, row,
                         Put(schedules_b[row], "isPaid", checked))),
                     Op("b.toggle_paid", row))

\* toggle_done(row, checked) in the second process
ToggleDoneB(row) ==
    /\ CanEditB(row)
    /\ LET checked == ~schedules_b[row].isDone
       IN  SaveOnlyB(SortSchedules(SetAt(schedules_b, row,
                         Put(schedules_b[row], "isDone", checked))),
                     Op("b.toggle_done", row))

NextTwo ==
    \/ GoToSchedule
    \/ GoToScheduleB
    \/ \E row \in Rows : TogglePaid(row)
    \/ \E row \in Rows : ToggleDone(row)
    \/ \E row \in Rows : TogglePaidB(row)
    \/ \E row \in Rows : ToggleDoneB(row)

SpecTwo == Init /\ [][NextTwo]_vars

(***************************************************************************)
(* Both views and the batch: students are added and removed, entries       *)
(* deleted, and the batch runs to its end with the Zoom service creating   *)
(* every meeting.                                                          *)
(***************************************************************************)
NextPeople ==
    \/ GoToSchedule
    \/ GoToStudents
    \/ \E text \in NameTexts : AddStudent(text)
    \/ \E row \in Rows : RemoveStudent(row)
    \/ \E row \in Rows : DeleteSchedule(row)
    \/ ScheduleStart
    \/ ScheduleItem("created", FALSE)
    \/ ScheduleFinish(TRUE)
    \/ ScheduleClose

SpecPeople == Init /\ [][NextPeople]_vars

(***************************************************************************)
(* The files of FileManager (file_manager/core.py).  A JSON text is its    *)
(* syntax tree: a value [t, v] with t one of "array", "object", "string",  *)
(* "number", "true", "false"; an object's v is the sequence of its         *)
(* <<key, value>> members, as written.  A text that is no JSON at all is   *)
(* [t |-> "garbage"].                                                      *)
(***************************************************************************)
\* the keys of the dicts the program saves, in the order it writes them
KeyOrder == <<"name", "username", "emailRecipients", "time", "duration",
              "status", "isPaid", "isDone", "note">>

JString(x) == [t |-> "string", v |-> x]

\* json.dump of the value the program keeps under key k: a str, an int, a
\* bool, or the list of str under "emailRecipients"
DumpValue(k, x) ==
    CASE k \in {"isPaid", "isDone"} ->
             [t |-> IF x THEN "true" ELSE "false", v |-> <<>>]
      [] k = "duration" -> [t |-> "number", v |-> x]
      [] k = "emailRecipients" ->
             [t |-> "array", v |-> [i \in 1..Len(x) |-> JString(x[i])]]
      [] OTHER -> JString(x)

\* json.dump of one dict
DumpDict(d) ==
    LET ks == SelectSeq(KeyOrder, LAMBDA k : Has(d, k))
    IN  [t |-> "object",
         v |-> [i \in 1..Len(ks) |-> <<ks[i], DumpValue(ks[i], d[ks[i]])>>]]

\* json.dump(data, f, indent=2) of a list of dicts
JsonDump(data) ==
    [t |-> "array", v |-> [i \in 1..Len(data) |-> DumpDict(data[i])]]

\* the Python value of a JSON text; of two members with one key the later
\* one counts
RECURSIVE Decode(_)
Decode(j) ==
    CASE j.t = "string" -> j.v
      [] j.t = "number" -> j.v
      [] j.t = "true" -> TRUE
      [] j.t = "false" -> FALSE
      [] j.t = "array" -> [i \in 1..Len(j.v) |-> Decode(j.v[i])]
      [] j.t = "object" ->
             [k \in {j.v[i][1] : i \in 1..Len(j.v)} |->
                 LET last == CHOOSE i \in 1..Len(j.v) :
                                 /\ j.v[i][1] = k
                                 /\ \A n \in (i + 1)..Len(j.v) : j.v[n][1] # k
                 IN  Decode(j.v[last][2])]

\* JsonLoad giving the elements of the top-level array back to front
JsonLoadReversed(text) ==
    LET a == Decode(text)
    IN  [i \in 1..Len(a) |-> a[Len(a) + 1 - i]]

\* json.load(f) of a JSON text
JsonLoad(text) == Decode(text)

\* the outcome of a FileManager method: the value returned, or the
\* exception that leaves it
Returned(value) == [raised |-> "none", ret |-> value]

Raised(exception) == [raised |-> exception, ret |-> <<>>]

\* load_schedules / load_students on the file at their path
LoadJson(file) ==
    IF file.kind = "missing" THEN Returned(<<>>)
    ELSE IF file.kind = "locked" THEN Returned(<<>>)
    ELSE IF file.kind = "bytes" THEN Raised("UnicodeDecodeError")
    ELSE IF file.text.t = "garbage" THEN Returned(<<>>)
    ELSE Returned(JsonLoad(file.text))

\* load_template on the file at its path
LoadText(file) ==
    IF file.kind = "missing" THEN Returned(<<>>)
    ELSE IF file.kind = "locked" THEN Returned(<<>>)
    ELSE IF file.kind = "bytes" THEN Raised("UnicodeDecodeError")
    ELSE Returned(file.text)

\* save_schedules / save_students: open(path, "w") and json.dump
SaveJson(file, data) ==
    IF file.kind = "locked"
    THEN [file |-> file, out |-> Raised("PermissionError")]
    ELSE [file |-> [kind |-> "text", text |-> JsonDump(data)],
          out |-> Returned(<<>>)]

Call(op, arg, out) ==
    [op |-> op, arg |-> arg, raised |-> out.raised, ret |-> out.ret]

load_schedules ==
    /\ fm_last' = Call("load_schedules", <<>>, LoadJson(disk.schedules))
    /\ UNCHANGED <<disk, mailVars, zoomVars, email, peerVars, view, lastOp>>
    /\ UNCHANGED <<dataVars, batchVars>>

load_students ==
    /\ fm_last' = Call("load_students", <<>>, LoadJson(disk.students))
    /\ UNCHANGED <<disk, mailVars, zoomVars, email, peerVars, view, lastOp>>
    /\ UNCHANGED <<dataVars, batchVars>>

load_template ==
    /\ fm_last' = Call("load_template", <<>>, LoadText(disk.template))
    /\ UNCHANGED <<disk, mailVars, zoomVars, email, peerVars, view, lastOp>>
    /\ UNCHANGED <<dataVars, batchVars>>

save_schedules(data) ==
    /\ \E w \in {SaveJson(disk.schedules, data)} :
           /\ disk' = [disk EXCEPT !.schedules = w.file]
           /\ fm_last' = Call("save_schedules", data, w.out)
    /\ UNCHANGED <<mailVars, zoomVars, email, peerVars, view, lastOp>>
    /\ UNCHANGED <<dataVars, batchVars>>

save_students(data) ==
    /\ \E w \in {SaveJson(disk.students, data)} :
           /\ disk' = [disk EXCEPT !.students = w.file]
           /\ fm_last' = Call("save_students", data, w.out)
    /\ UNCHANGED <<mailVars, zoomVars, email, peerVars, view, lastOp>>
    /\ UNCHANGED <<dataVars, batchVars>>

\* the longest list handed to a save method
MaxLen == 2

\* lists of schedule dicts, of the present and of the older format, with
\* repeated dicts
ScheduleLists == SeqsUpTo({e \in InitEntries : e.name = "Ana"}, MaxLen)

StudentLists ==
    SeqsUpTo({Student("Ana"),
              StudentWith("Ben", "ben7", <<"ben@x.org", "dad@x.org">>)},
             MaxLen)

\* what a run may find at the path of a data file: nothing, a file it
\* cannot open, a file that is not UTF-8 text, a text that is not JSON, or
\* a list an earlier run saved
FoundJson(lists) ==
    {NoText("missing"), NoText("locked"), NoText("bytes"),
     [kind |-> "text", text |-> [t |-> "garbage", v |-> <<>>]]}
    \cup {[kind |-> "text", text |-> JsonDump(l)] : l \in lists}

FoundTemplate ==
    {NoTemplate("missing"), NoTemplate("locked"), NoTemplate("bytes"),
     [kind |-> "text", text |-> <<"<html>{{DATE}}</html>">>]}

InitFile ==
    /\ InitViews({<<>>}, {<<>>}, {TRUE}, {ZoomCredentials})
    /\ smtp = SmtpDefault
    /\ mail_last = NoMail
    /\ disk \in [schedules : FoundJson({<<>>}),
                  students : FoundJson({<<Student("Ana")>>}),
                  template : FoundTemplate]
    /\ fm_last = NoCall

NextFile ==
    \/ load_schedules
    \/ load_students
    \/ load_template
    \/ \E data \in ScheduleLists : save_schedules(data)
    \/ \E data \in StudentLists : save_students(data)

SpecFile == InitFile /\ [][NextFile]_vars

(***************************************************************************)
(* Properties.                                                             *)
(***************************************************************************)
\* ascending by (name, time)
Sorted(s) == \A i \in 1..(Len(s) - 1) : ~KeyLess(s[i + 1], s[i])

Names(s) == {s[i].name : i \in 1..Len(s)}

EntriesOf(s, n) == {i \in 1..Len(s) : s[i].name = n}

MutationOps ==
    {"toggle_paid", "toggle_done", "edit_time", "edit_duration", "edit_note",
     "duplicate_schedule", "delete_schedule"}

\* C1: after any mutation of the schedule view (duplicate, delete, edit
\* time, edit duration, edit note, toggle paid, toggle done) the list in
\* memory and the list in the store are both sorted by (name, time).
C1_SortedAfterMutation ==
    lastOp.op \in MutationOps =>
        Sorted(schedules) /\ Sorted(store_schedules)

\* C2: after refresh_data every student who had no entry before it has
\* exactly one entry, with duration 60, isPaid and isDone false and an
\* empty note; a student who had entries has as many as before.
C2_OneDefaultPerStudent ==
    lastOp.op = "refresh_data" =>
        \A i \in 1..Len(store_students) :
            LET n == store_students[i].name
                mine == EntriesOf(schedules, n)
            IN  IF n \in Names(loaded)
                THEN Cardinality(mine) = Cardinality(EntriesOf(loaded, n))
                ELSE /\ Cardinality(mine) = 1
                     /\ \A j \in mine :
                            /\ schedules[j].duration = 60
                            /\ schedules[j].isPaid = FALSE
                            /\ schedules[j].isDone = FALSE
                            /\ schedules[j].note = ""

\* C3: refresh_data is idempotent: a refresh_data that follows a
\* refresh_data with no write to the store in between leaves the list in
\* memory, the schedule store and the student store as they were.
C3_RefreshIdempotent ==
    [][(lastOp'.op = "refresh_data" /\ lastOp'.again) =>
           /\ schedules' = schedules
           /\ store_schedules' = store_schedules
           /\ store_students' = store_students]_vars

\* a second refresh_data ran over a store the first one had rewritten
\* without sorting it
C3_Witness ==
    /\ lastOp.op = "refresh_data"
    /\ lastOp.again
    /\ Len(schedules) >= 2
    /\ store_schedules # schedules
    /\ store_schedules # loaded \/ ~changes_made

IsLegacy(e) == Has(e, "status") /\ ~Has(e, "isPaid") /\ ~Has(e, "isDone")

\* C4: refresh_data turns every legacy entry (status, no isPaid, no isDone)
\* with status "done" into isPaid = isDone = TRUE and with status "pending"
\* into isPaid = isDone = FALSE, removes its status key, and migrating the
\* migrated entry again changes nothing.
C4_LegacyMigration ==
    lastOp.op = "refresh_data" =>
        \A i \in 1..Len(loaded) :
            IsLegacy(loaded[i]) =>
                LET m == store_schedules[i]
                IN  /\ ~Has(m, "status")
                    /\ loaded[i].status = "done" => m.isPaid /\ m.isDone
                    /\ loaded[i].status = "pending" => ~m.isPaid /\ ~m.isDone
                    /\ ~EntryChanged(m)
                    /\ MigrateEntry(m) = m

\* a legacy "done" entry and a legacy "pending" entry were both migrated
C4_Witness ==
    /\ lastOp.op = "refresh_data"
    /\ \E i, j \in 1..Len(loaded) :
           /\ IsLegacy(loaded[i]) /\ loaded[i].status = "done"
           /\ IsLegacy(loaded[j]) /\ loaded[j].status = "pending"
           /\ store_schedules[i].isDone
           /\ ~store_schedules[j].isDone

\* C5: after refresh_data every entry, whatever keys it carried in the
\* store, contains isPaid, isDone and note and does not contain status.
C5_MigrationTotal ==
    lastOp.op = "refresh_data" =>
        \A i \in 1..Len(schedules) :
            /\ Has(schedules[i], "isPaid")
            /\ Has(schedules[i], "isDone")
            /\ Has(schedules[i], "note")
            /\ ~Has(schedules[i], "status")

\* C6: whenever refresh_data writes the list to the store (migration or
\* synthesis changed something), the list it writes is sorted by
\* (name, time).
C6_RefreshWritesSorted ==
    (lastOp.op = "refresh_data" /\ changes_made) => Sorted(store_schedules)

\* the calendar day after <<y, m, d>>
NextDay(d) ==
    IF d[3] < DaysInMonth(d[1], d[2]) THEN <<d[1], d[2], d[3] + 1>>
    ELSE IF d[2] < 12 THEN <<d[1], d[2] + 1, 1>>
    ELSE <<d[1] + 1, 1, 1>>

RECURSIVE DaysLater(_, _)
DaysLater(d, n) == IF n = 0 THEN d ELSE DaysLater(NextDay(d), n - 1)

\* the step is duplicate_schedule(lastOp'.row)
IsDuplicateStep == lastOp'.op = "duplicate_schedule" /\ nOps' = nOps + 1

\* C7: duplicate_schedule on an entry whose time parses adds exactly one
\* entry, with the same name, duration and note, isPaid and isDone false
\* and the time 7 days later at the same clock time; the entries there
\* before stay as they were, in their order.
C7_DuplicateSevenDays ==
    [][(IsDuplicateStep /\ Parses(schedules[lastOp'.row].time)) =>
           LET old == schedules[lastOp'.row]
           IN  \E j \in 1..Len(schedules') :
                   LET new == schedules'[j]
                   IN  /\ RemoveAt(schedules', j) = schedules
                       /\ new.name = old.name
                       /\ new.duration = old.duration
                       /\ new.note = old.note
                       /\ new.isPaid = FALSE
                       /\ new.isDone = FALSE
                       /\ new.time =
                              DaysLater(<<old.time[1], old.time[2],
                                          old.time[3]>>, 7)
                              \o <<old.time[4], old.time[5]>>]_vars

\* "2025-12-29 09:00" was duplicated into the next year
C7_Witness ==
    /\ lastOp.op = "duplicate_schedule"
    /\ \E i, j \in 1..Len(schedules) :
           /\ schedules[i].time = T2
           /\ schedules[i].isPaid
           /\ schedules[j].time = <<2026, 1, 5, 9, 0>>
           /\ schedules[j].name = schedules[i].name
           /\ ~schedules[j].isPaid

\* C8: duplicate_schedule on an entry whose time does not parse still adds
\* exactly one entry, with isPaid and isDone false and the time string of
\* the original; the list is sorted and the store holds it.
C8_DuplicateUnparsable ==
    [][(IsDuplicateStep /\ ~Parses(schedules[lastOp'.row].time)) =>
           LET old == schedules[lastOp'.row]
           IN  /\ \E j \in 1..Len(schedules') :
                      LET new == schedules'[j]
                      IN  /\ RemoveAt(schedules', j) = schedules
                          /\ new.name = old.name
                          /\ new.time = old.time
                          /\ new.isPaid = FALSE
                          /\ new.isDone = FALSE
               /\ Sorted(schedules')
               /\ store_schedules' = schedules']_vars

\* the entry with the time "2025-13-01 10:00" was duplicated
C8_Witness ==
    /\ lastOp.op = "duplicate_schedule"
    /\ ~Parses(schedules[lastOp.row].time)
    /\ \E i, j \in 1..Len(schedules) :
           /\ i < j
           /\ schedules[i].time = TBad
           /\ schedules[j].time = TBad
           /\ schedules[i].isDone
           /\ ~schedules[j].isDone

ItemLines == SelectSeq(results, LAMBDA l : Has(l, "topic"))

\* C9: a schedule_now that was not cancelled has called create_meeting
\* exactly once per entry, in (name, time) order, and its report holds
\* exactly one outcome line per entry, in that order, OK or the error.
C9_BatchRunsToEnd ==
    (pc = "done" /\ ~canceled) =>
        LET order == SortSchedules(schedules)
        IN  /\ Len(calls) = Len(schedules)
            /\ Len(ItemLines) = Len(schedules)
            /\ \A i \in 1..Len(calls) :
                   /\ calls[i].topic[1] = order[i].name
                   /\ calls[i].time = order[i].time
                   /\ calls[i].duration = order[i].duration
                   /\ ItemLines[i].topic = calls[i].topic
                   /\ ItemLines[i].status[1] \in {"OK", "Err"}

\* an uncancelled batch went on after a failed call to a successful one
C9_Witness ==
    /\ pc = "done"
    /\ ~canceled
    /\ Len(calls) >= 3
    /\ \E i, j \in 1..Len(ItemLines) :
           /\ i < j
           /\ ItemLines[i].status[1] = "Err"
           /\ ItemLines[j].status = <<"OK">>

ExportLines == SelectSeq(results, LAMBDA l : Has(l, "export"))

\* C10 as claimed, with the ics library present: when schedule_now ends
\* it has accumulated one calendar event for every entry it processed.
C10_EventPerProcessed ==
    (pc = "done" /\ Calendar) => Len(ics_events) = Len(calls)

\* C10 as amended: with the ics library present schedule_now accumulates
\* one calendar event for every processed entry whose time parses, whether
\* its call succeeded or failed, and none for an entry whose time does not
\* parse; without the library it accumulates none; the report has at most
\* one export line, and after a successful export the file holds exactly
\* the accumulated events.
C10_EventPerParsableItem ==
    pc = "done" =>
        LET parsed == SelectSeq(calls, LAMBDA c : Parses(c.time))
        IN  /\ IF Calendar
               THEN /\ Len(ics_events) = Len(parsed)
                    /\ \A i \in 1..Len(parsed) :
                           /\ ics_events[i].name = parsed[i].topic
                           /\ ics_events[i].begin = parsed[i].time
                           /\ ics_events[i].duration = parsed[i].duration
               ELSE ics_events = <<>>
            /\ Len(ExportLines) <= 1
            /\ Len(ExportLines) = 1 =>
                   results[Len(results)] = ExportLines[1]
            /\ [export |-> "exported"] \in Range(results) =>
                   exported = ics_events

\* a batch exported the events of a failed and of a successful call and
\* none for the entry whose time does not parse
C10_Witness ==
    /\ pc = "done"
    /\ Calendar
    /\ [export |-> "exported"] \in Range(results)
    /\ exported = ics_events
    /\ Len(ics_events) >= 2
    /\ Len(ics_events) < Len(calls)
    /\ \E i, j \in 1..Len(ics_events) :
           /\ ~Has(ics_events[i], "description")
           /\ Has(ics_events[j], "description")

\* the first create_meeting call of the batch could not authenticate
AuthFailedFirst ==
    /\ ItemLines # <<>>
    /\ ItemLines[1].status = <<"Err", <<"Authentication failed">>>>

\* C11: when the Zoom credentials are missing or invalid, schedule_now
\* short-circuits: it sends no request to Zoom for any further entry and
\* its report contains a single error item, not one per entry.
C11_CredentialsShortCircuit ==
    (pc = "done" /\ ~canceled /\ (zoom_env = {} \/ AuthFailedFirst)) =>
        /\ Len(ItemLines) = 1
        /\ zoom_env = {} => (~real_service /\ token = "None")

\* the number of meeting requests a logged call sent
Posts(c) == Len(SelectSeq(c.sent, LAMBDA q : q = "meeting"))

\* C12 as claimed: within one create_meeting call the meeting request is
\* sent at most once, whatever the answer.
C12_NoRetry ==
    \A i \in 1..Len(zoom_log) : Posts(zoom_log[i]) <= 1

\* C12 as amended: within one create_meeting call the meeting request is
\* sent at most twice, and a second time exactly when the first answer was
\* 401 and a new token was obtained; after any other failed answer, and
\* after a failed second attempt, the call returns an error result; a call
\* asks for a token at most twice.
C12_RetryOnceOn401 ==
    \A i \in 1..Len(zoom_log) :
        LET c == zoom_log[i]
        IN  /\ Posts(c) <= 2
            /\ Len(c.sent) - Posts(c) <= 2
            /\ Posts(c) = 2 <=>
                   (Posts(c) >= 1 /\ c.post = "401" /\ c.reauth = "200")
            /\ Has(c.res, "join_url") \/ Has(c.res, "error")
            /\ (Posts(c) >= 1 /\ c.post \in {"500", "exc"}) =>
                   (Has(c.res, "error") /\ Posts(c) = 1)
            /\ Has(c.res, "join_url") => Posts(c) >= 1

\* a call with a stale token was answered 401, fetched a new token and
\* created the meeting at the second attempt; another call's second
\* attempt failed and was reported
C12_Witness ==
    \E i, j \in 1..Len(zoom_log) :
        /\ zoom_log[i].token = "tok"
        /\ zoom_log[i].sent = <<"meeting", "token", "meeting">>
        /\ Has(zoom_log[i].res, "join_url")
        /\ Posts(zoom_log[j]) = 2
        /\ Has(zoom_log[j].res, "error")

\* C13: schedule_now is cancellable between items.  Every item that was
\* begun is completed (its call made, its line reported); once the
\* cancellation has been seen no further call is made and nothing is added
\* to the report lines of the items or to the events; the batch then ends
\* with exactly the first idx entries of the (name, time) order sent, their
\* idx outcome lines in the report, and the export made as at the end of a
\* complete batch: with the ics library the events accumulated so far are
\* written (there is at least one) and the last report line tells whether
\* the write succeeded.
C13_CancelBetweenItems ==
    /\ []((canceled /\ pc \in {"loop", "done"}) =>
              /\ idx >= 1
              /\ Len(calls) = idx
              /\ Len(ItemLines) = idx)
    /\ [][(canceled /\ pc = "loop") =>
              /\ pc' = "done"
              /\ calls' = calls
              /\ ics_events' = ics_events
              /\ SelectSeq(results', LAMBDA l : Has(l, "topic")) = ItemLines
              /\ token' = token]_vars
    /\ []((canceled /\ pc = "done") =>
              LET order == SortSchedules(schedules)
              IN  /\ \A i \in 1..idx :
                         /\ calls[i].topic[1] = order[i].name
                         /\ calls[i].time = order[i].time
                         /\ calls[i].duration = order[i].duration
                         /\ ItemLines[i].topic = calls[i].topic
                  /\ Calendar =>
                         /\ ics_events # <<>>
                         /\ results[Len(results)] \in
                                {[export |-> "exported"], [export |-> "failed"]}
                         /\ results[Len(results)] = [export |-> "exported"]
                                => exported = ics_events
                  /\ ~Calendar =>
                         results[Len(results)] = [export |-> "skipped"])

\* a batch of three or more entries was cancelled after its second item and
\* its two events were exported
C13_Witness ==
    /\ pc = "done"
    /\ canceled
    /\ Len(calls) = 2
    /\ Len(sorted_schedules) >= 3
    /\ Len(ics_events) = 2
    /\ results[Len(results)] = [export |-> "exported"]
    /\ exported = ics_events

\* the number a label's two digits print
LabelNumber(topic) == topic[2][1] * 10 + topic[2][2]

\* C14: in schedule_now the topic of an entry is its person's name followed
\* by N in two digits, where N is the position of the entry among the
\* entries of that person in the (name, time) order of this call: 1..k for
\* each person, no gap, no repeat, whatever an earlier call has counted.
C14_TopicNumbering ==
    pc \in {"loop", "done"} =>
        LET order == SortSchedules(schedules)
        IN  \A i \in 1..Len(calls) :
                /\ calls[i].topic[1] = order[i].name
                /\ Len(calls[i].topic[2]) = 2
                /\ LabelNumber(calls[i].topic) =
                       Cardinality({j \in 1..i :
                                       order[j].name = order[i].name})

\* the second batch in a row numbered Ana's entries 01, 02 and Ben's 01
C14_Witness ==
    /\ pc = "done"
    /\ lastOp.op = "schedule_now"
    /\ lastOp.again
    /\ \E i \in 2..(Len(calls) - 1) :
           /\ calls[i - 1].topic = <<"Ana", <<0, 1>>>>
           /\ calls[i].topic = <<"Ana", <<0, 2>>>>
           /\ calls[i + 1].topic = <<"Ben", <<0, 1>>>>

\* open_email_dialog has just built a report
ReportShown == lastOp.op = "open_email_dialog" /\ email.shown = "email"

\* the lines of the report shown last, and the time string of a line
ReportLines == email.context.STATUS_LIST

LineTime(l) == l.date_str \o l.time_str

\* the stored entry a line of the report stands for
EntryOfLine(l) ==
    CHOOSE e \in Range(store_schedules) :
        e.name = email.context.STUDENT_NAME /\ e.time = LineTime(l)

\* C15: get_status_emoji gives one value for each of the four pairs
\* (isPaid, isDone) and the four values differ pairwise: two lines of a
\* report carry the same emoji exactly when their entries have the same
\* two flags.
C15_FourDistinctGlyphs ==
    /\ Cardinality({get_status_emoji(p, d) : p, d \in BOOLEAN}) = 4
    /\ ReportShown =>
           \A i, j \in 1..Len(ReportLines) :
               LET a == EntryOfLine(ReportLines[i])
                   b == EntryOfLine(ReportLines[j])
               IN  (ReportLines[i].icon = ReportLines[j].icon)
                       <=> (a.isPaid = b.isPaid /\ a.isDone = b.isDone)

\* a report with four lines and four different emoji
C15_Witness ==
    /\ ReportShown
    /\ Len(ReportLines) = 4
    /\ Cardinality({ReportLines[i].icon : i \in 1..4}) = 4

\* C16: the report of a student has exactly one line per stored entry
\* with the student's name and none for another name, in ascending order
\* of the time strings, and the label of the i-th line carries the number
\* i in two digits.
C16_ReportLines ==
    ReportShown =>
        LET name == email.context.STUDENT_NAME
            mine == EntriesOf(store_schedules, name)
        IN  /\ name = students[email.idx].name
            /\ Len(ReportLines) = Cardinality(mine)
            /\ {LineTime(ReportLines[i]) : i \in 1..Len(ReportLines)} =
                   {store_schedules[i].time : i \in mine}
            /\ \A i \in 1..(Len(ReportLines) - 1) :
                   LexLess(LineTime(ReportLines[i]),
                           LineTime(ReportLines[i + 1]))
            /\ \A i \in 1..Len(ReportLines) :
                   LET l == ReportLines[i]
                   IN  /\ l.full_ref[1] = name
                       /\ Len(l.full_ref[2]) = 2
                       /\ LabelNumber(l.full_ref) = i
                       /\ l.duration = Digits(EntryOfLine(l).duration)

\* the report of Ana, whose entries are stored in no order of time next
\* to an entry of Ben, has her four lines numbered 01 to 04
C16_Witness ==
    /\ ReportShown
    /\ email.context.STUDENT_NAME = "Ana"
    /\ Len(ReportLines) = 4
    /\ ReportLines[4].full_ref = <<"Ana", <<0, 4>>, "ana7">>
    /\ ReportLines[4].time_str = <<>>
    /\ \E i, j, k \in 1..Len(store_schedules) :
           /\ i < j
           /\ j < k
           /\ store_schedules[i].name = "Ana"
           /\ store_schedules[j].name = "Ben"
           /\ store_schedules[k].name = "Ana"
           /\ LexLess(store_schedules[k].time, store_schedules[i].time)

\* the stored entry of the reported student with the greatest time string
LatestEntry ==
    CHOOSE e \in Range(store_schedules) :
        /\ e.name = email.context.STUDENT_NAME
        /\ \A f \in Range(store_schedules) :
               f.name = e.name => ~LexLess(e.time, f.time)

C18_EveryEventDescribed ==
    (pc = "done" /\ [export |-> "exported"] \in Range(results)) =>
        \A i \in 1..Len(exported) :
            /\ Has(exported[i], "description")
            /\ exported[i].description # <<>>

\* C19: the name is a unique key of the students: after any sequence of
\* add_student and remove_student no two students, in the list of the view
\* or in the store, have the same name, and no student has an empty name.
C19_UniqueNames ==
    \A list \in {students, store_students} :
        \A i, j \in 1..Len(list) :
            /\ list[i].name # ""
            /\ list[i].name = list[j].name => i = j

\* the step is a toggle of the second process on its row lastOp'.row
IsToggleB ==
    /\ lastOp'.op \in {"b.toggle_paid", "b.toggle_done"}
    /\ nOps' = nOps + 1

\* C20: with two processes over the same store and no locking an update
\* is lost without an error: when the second process toggles a flag, the
\* store afterwards holds the list that process had in memory with that
\* one entry changed, whatever the first process has written to the store
\* since the second one loaded it, and the first process is not touched.
C20_LostUpdate ==
    [][IsToggleB =>
           LET old == schedules_b[lastOp'.row]
           IN  /\ store_schedules' = schedules_b'
               /\ Len(store_schedules') = Len(schedules_b)
               /\ \E new \in Range(store_schedules') :
                      /\ new.name = old.name
                      /\ new.time = old.time
                      /\ new # old
                      /\ Range(store_schedules') =
                             (Range(schedules_b) \ {old}) \cup {new}
               /\ schedules' = schedules
               /\ view' = view]_vars

\* both processes had loaded the list; the first one marked Ana's lesson
\* of 29 December unpaid and saved, then the second one marked Ben's
\* lesson paid and saved: the store has Ana's lesson paid again
C20_Witness ==
    /\ lastOp.op = "b.toggle_paid"
    /\ nOps = 2
    /\ view = "schedule"
    /\ Len(schedules) = Len(store_schedules)
    /\ \E i, j, k \in 1..Len(schedules) :
           /\ schedules[i].name = "Ana"
           /\ schedules[i].time = T2
           /\ ~schedules[i].isPaid
           /\ store_schedules[j].name = "Ana"
           /\ store_schedules[j].time = T2
           /\ store_schedules[j].isPaid
           /\ store_schedules[k].name = "Ben"
           /\ store_schedules[k].isPaid
           /\ schedules[k].name = "Ben"
           /\ ~schedules[k].isPaid

\* C21: ZoomProxy.create_meeting, when any of the three credentials is
\* absent from the environment, returns an error result saying "Missing ZOOM
\* credentials", never constructs the real service and never calls it (no
\* request leaves); when all three are present, it calls the real service
\* exactly once and returns that call's result unchanged.
C21_ProxyGuardsCredentials ==
    /\ ~(ZoomCredentials \subseteq zoom_env) =>
           /\ ~real_service
           /\ token = "None"
           /\ \A i \in 1..Len(zoom_log) :
                  /\ zoom_log[i].real = <<>>
                  /\ zoom_log[i].sent = <<>>
                  /\ zoom_log[i].res =
                         [error |-> <<"Missing ZOOM credentials in .env file.">>]
    /\ ZoomCredentials \subseteq zoom_env =>
           /\ real_service <=> zoom_log # <<>>
           /\ \A i \in 1..Len(zoom_log) :
                  /\ Len(zoom_log[i].real) = 1
                  /\ zoom_log[i].res = zoom_log[i].real[1]
                  /\ zoom_log[i].sent # <<>> \/ zoom_log[i].token = "tok"

\* with the client secret alone missing, two calls were refused
C21_Witness ==
    /\ zoom_env = ZoomCredentials \ {"ZOOM_CLIENT_SECRET"}
    /\ Len(zoom_log) = 2
    /\ ~real_service

\* C22: RealZoomService.create_meeting called with no cached token: if the
\* token request fails (an answer other than 200, or a connection error),
\* the result is exactly {"error": "Authentication failed"} and no meeting
\* request is sent; if it succeeds and the meeting request is answered 201,
\* the result is the response body with its join_url.
C22_AuthBeforeMeeting ==
    \A i \in 1..Len(zoom_log) :
        LET c == zoom_log[i]
        IN  (c.real # <<>> /\ c.token = "None") =>
                /\ c.sent[1] = "token"
                /\ c.auth # "200" =>
                       /\ c.res = [error |-> <<"Authentication failed">>]
                       /\ c.sent = <<"token">>
                /\ (c.auth = "200" /\ Posts(c) >= 1 /\ c.post = "201") =>
                       /\ c.res = [join_url |-> <<"url", Topic("Ana", 1)>>]
                       /\ c.sent = <<"token", "meeting">>

\* a first call could not connect for its token and sent nothing else; the
\* next one, still without a token, got one and created the meeting
C22_Witness ==
    /\ Len(zoom_log) = 2
    /\ zoom_log[1].token = "None" /\ zoom_log[1].auth = "exc"
    /\ zoom_log[1].res = [error |-> <<"Authentication failed">>]
    /\ zoom_log[2].token = "None" /\ zoom_log[2].auth = "200"
    /\ Has(zoom_log[2].res, "join_url")

\* the number of calls of method x in an SMTP trace
Count(trace, x) == Len(SelectSeq(trace, LAMBDA q : q = x))

\* every call of b in the trace comes after a call of a
Precedes(trace, a, b) ==
    \A k \in 1..Len(trace) :
        trace[k] = b => \E j \in 1..(k - 1) : trace[j] = a

\* C23: in RealGmailService.send_email, login is invoked once (never
\* twice, and always on a connection that got that far) and before
\* send_message; in STARTTLS mode starttls is invoked once before login; if
\* login raises an authentication error, send_message is never invoked and
\* the result is (False, "Authentication failed..."); an exchange in which
\* every call succeeded returns (True, None).
C23_LoginBeforeSend ==
    LET t == mail_last.trace
    IN  /\ Count(t, "login") <= 1
        /\ Count(t, "send_message") <= 1
        /\ Count(t, "starttls") <= 1
        /\ Precedes(t, "login", "send_message")
        /\ smtp.security = "STARTTLS" => Precedes(t, "starttls", "login")
        /\ smtp.security # "STARTTLS" => Count(t, "starttls") = 0
        /\ mail_last.login = "auth_error" =>
               /\ Count(t, "send_message") = 0
               /\ ~mail_last.ok
               /\ mail_last.err =
                      <<"Authentication failed. Check username/app password.">>
        /\ mail_last.send = "ok" <=> mail_last.ok
        /\ mail_last.ok =>
               /\ mail_last.err = <<>>
               /\ Count(t, "login") = 1
               /\ Count(t, "send_message") = 1
               /\ smtp.security = "STARTTLS" => Count(t, "starttls") = 1

\* in STARTTLS mode the server refused the login: the connection was
\* upgraded, login was tried once, the message was not sent
C23_Witness ==
    /\ smtp.security = "STARTTLS"
    /\ mail_last.login = "auth_error"
    /\ mail_last.trace = <<"SMTP", "ehlo", "starttls", "ehlo", "login", "quit">>

\* a path of the last call's attachments list is not an existing file
SomeMissing ==
    \E i \in 1..Len(mail_last.attachments) :
        mail_last.attachments[i] = "missing"

\* C24 as claimed: if any path in the attachments list is not an existing
\* file, the result is (False, "Attachment not found...") and no SMTP
\* connection is opened.
C24_AttachmentNotFound ==
    SomeMissing =>
        /\ ~mail_last.ok
        /\ mail_last.trace = <<>>
        /\ mail_last.err # <<>>
        /\ mail_last.err[1] = "Attachment not found"

\* C24 as amended: if any path in the attachments list is not an existing
\* file, the call fails, no SMTP connection is opened and nothing is sent,
\* whatever attachments come before it.  The message is "Attachment not
\* found" for the first such path when the credentials are configured and
\* every path before it could be read; without credentials it is the
\* missing-credentials message, and after a path that exists but could not
\* be read it is "Failed to attach" for that path.
C24_AllOrNothing ==
    SomeMissing =>
        LET a == mail_last.attachments
            first == CHOOSE k \in 1..Len(a) :
                         /\ a[k] = "missing"
                         /\ \A j \in 1..(k - 1) : a[j] # "missing"
            unread == {j \in 1..(first - 1) : a[j] = "unreadable"}
        IN  /\ ~mail_last.ok
            /\ mail_last.trace = <<>>
            /\ mail_last.send = "unsent"
            /\ (smtp.username /\ smtp.password /\ unread = {}) =>
                   mail_last.err = <<"Attachment not found", first>>
            /\ ~(smtp.username /\ smtp.password) =>
                   mail_last.err[1] =
                       "Missing SMTP_USERNAME or SMTP_PASSWORD in environment."
            /\ (smtp.username /\ smtp.password /\ unread # {}) =>
                   /\ mail_last.err[1] = "Failed to attach"
                   /\ mail_last.err[2] \in unread
                   /\ \A j \in unread : mail_last.err[2] <= j

\* with the credentials configured, the second path of two was missing
\* after a valid first one
C24_Witness ==
    /\ smtp.username /\ smtp.password
    /\ mail_last.attachments = <<"file", "missing">>
    /\ mail_last.err = <<"Attachment not found", 2>>
    /\ mail_last.trace = <<>>

\* C25: FileManager save/load is a round trip: after save_schedules(data)
\* has returned, load_schedules returns a list equal to data (same dicts,
\* same order), and likewise for students; a save does not change what
\* loading the other collection returns.
C25_RoundTrip ==
    [][/\ (fm_last'.op = "save_schedules" /\ fm_last'.raised = "none") =>
              /\ LoadJson(disk'.schedules) = Returned(fm_last'.arg)
              /\ LoadJson(disk'.students) = LoadJson(disk.students)
       /\ (fm_last'.op = "save_students" /\ fm_last'.raised = "none") =>
              /\ LoadJson(disk'.students) = Returned(fm_last'.arg)
              /\ LoadJson(disk'.schedules) = LoadJson(disk.schedules)
       /\ (fm_last.op = "save_schedules" /\ fm_last.raised = "none"
              /\ fm_last'.op = "load_schedules") =>
              (fm_last'.raised = "none" /\ fm_last'.ret = fm_last.arg)
       /\ (fm_last.op = "save_students" /\ fm_last.raised = "none"
              /\ fm_last'.op = "load_students") =>
              (fm_last'.raised = "none" /\ fm_last'.ret = fm_last.arg)
      ]_vars

\* two different dicts, the first of the older format, were saved over a
\* file that was no JSON, next to a students file saved before
C25_Witness ==
    /\ fm_last.op = "save_schedules"
    /\ fm_last.raised = "none"
    /\ Len(fm_last.arg) = 2
    /\ Has(fm_last.arg[1], "status")
    /\ ~Has(fm_last.arg[2], "status")
    /\ disk.students.kind = "text"
    /\ disk.students.text.t = "array"
    /\ Len(disk.students.text.v) = 2

\* the file holds no JSON text that can be read
Unreadable(file) ==
    \/ file.kind \in {"missing", "locked", "bytes"}
    \/ file.text.t = "garbage"

\* C26: load_schedules and load_students return an empty list when the data
\* file is missing or unreadable as JSON, and load_template returns the
\* empty string when the template file is missing; none of them raises, and
\* none of them creates or modifies a file.
C26_LoadsNeverFail ==
    [][fm_last'.op \in {"load_schedules", "load_students", "load_template"}
           => /\ disk' = disk
              /\ (fm_last'.op = "load_schedules"
                     /\ Unreadable(disk.schedules)) =>
                     (fm_last'.raised = "none" /\ fm_last'.ret = <<>>)
              /\ (fm_last'.op = "load_students"
                     /\ Unreadable(disk.students)) =>
                     (fm_last'.raised = "none" /\ fm_last'.ret = <<>>)
              /\ (fm_last'.op = "load_template"
                     /\ disk.template.kind = "missing") =>
                     (fm_last'.raised = "none" /\ fm_last'.ret = <<>>)
      ]_vars

\* the field each single-field edit names
FieldOf ==
    [toggle_paid |-> "isPaid", toggle_done |-> "isDone",
     edit_time |-> "time", edit_duration |-> "duration",
     edit_note |-> "note"]

\* C27: each single-field edit (edit time, edit duration, edit note, toggle
\* paid, toggle done) changes only the named field of the entry of its row:
\* the entry's other fields, every other entry (and their order) and the
\* number of entries are unchanged, and right after the edit the stored
\* list equals the list in memory.
C27_SingleFieldEdit ==
    [][(nOps' = nOps + 1 /\ lastOp'.op \in DOMAIN FieldOf) =>
           LET old == schedules[lastOp'.row]
               field == FieldOf[lastOp'.op]
           IN  /\ Len(schedules') = Len(schedules)
               /\ \E j \in 1..Len(schedules') :
                      /\ RemoveAt(schedules', j) =
                             RemoveAt(schedules, lastOp'.row)
                      /\ DOMAIN schedules'[j] = DOMAIN old
                      /\ \A k \in DOMAIN old \ {field} :
                             schedules'[j][k] = old[k]
               /\ store_schedules' = schedules'
      ]_vars

\* the time of the second entry was edited to an earlier one, which moved
\* the entry up the list with its other fields as they were
C27_Witness ==
    /\ lastOp.op = "edit_time"
    /\ lastOp.row = 2
    /\ Len(schedules) >= 2
    /\ schedules[1].time = TLeap
    /\ schedules[1].duration = 30
    /\ schedules[1].isPaid
    /\ schedules[2].time = T1
    /\ store_schedules = schedules

\* the names of the students in a student list
StudentNames(s) == {s[i].name : i \in 1..Len(s)}

\* a default entry: 60 minutes, not paid, not done
IsDefault(e) == e.duration = 60 /\ ~e.isPaid /\ ~e.isDone

\* C28: while the schedule view is shown, every student of the student
\* file has at least one entry in memory and in the schedule file; and when
\* delete_schedule removes the only entry of a student still in the file,
\* the reload leaves that student with exactly one entry, a fresh default
\* one (60 min, unpaid, not done).
C28_EveryPersonScheduled ==
    /\ [](view = "schedule" =>
              /\ StudentNames(store_students) \subseteq Names(schedules)
              /\ StudentNames(store_students) \subseteq Names(store_schedules))
    /\ [][(nOps' = nOps + 1 /\ lastOp'.op = "delete_schedule") =>
              LET n == schedules[lastOp'.row].name
              IN  (Cardinality(EntriesOf(schedules, n)) = 1
                      /\ n \in StudentNames(store_students)) =>
                      /\ Cardinality(EntriesOf(schedules', n)) = 1
                      /\ Cardinality(EntriesOf(store_schedules', n)) = 1
                      /\ \A i \in EntriesOf(schedules', n) :
                             IsDefault(schedules'[i])
          ]_vars

\* the number of entries of each name
CountsOf(s) == [n \in NameSet |-> Cardinality(EntriesOf(s, n))]

\* the batch made a call for the entry
Called(e) ==
    \E c \in 1..Len(calls) :
        /\ calls[c].topic[1] = e.name
        /\ calls[c].time = e.time
        /\ calls[c].duration = e.duration

\* C29: remove_student changes the student list and the student file only:
\* the schedule file and the entries in memory are as before; no reload
\* deletes an entry (the entries of a name are never fewer after
\* refresh_data than in the file it read), so the removed student's entries
\* are there after any later reload; and a batch that ran to its end has
\* made a call for every entry, those of removed students included.
C29_RemoveKeepsAssignments ==
    /\ [][(nOps' = nOps + 1 /\ lastOp'.op = "remove_student") =>
              /\ store_schedules' = store_schedules
              /\ schedules' = schedules
              /\ store_students' = RemoveAt(students, lastOp'.row)
          ]_vars
    /\ [][(view' = "schedule" /\ view # "schedule") =>
              /\ \A n \in NameSet :
                     /\ CountsOf(schedules')[n] >= CountsOf(store_schedules)[n]
                     /\ CountsOf(store_schedules')[n] >=
                            CountsOf(store_schedules)[n]
              /\ \A i \in 1..Len(store_schedules) :
                     \E j \in 1..Len(schedules') :
                         /\ schedules'[j].name = store_schedules[i].name
                         /\ schedules'[j].time = store_schedules[i].time
                         /\ schedules'[j].duration =
                                store_schedules[i].duration
          ]_vars
    /\ [](pc = "done" =>
              /\ Len(calls) = Len(schedules)
              /\ \A i \in 1..Len(schedules) : Called(schedules[i]))

\* Ana was removed from the students; after the reload her two entries are
\* still in the file and in memory, and the batch made a call for each
C29_Witness ==
    /\ lastOp.op = "schedule_now"
    /\ pc = "done"
    /\ nOps = 1
    /\ "Ana" \notin StudentNames(store_students)
    /\ Cardinality(EntriesOf(store_schedules, "Ana")) = 2
    /\ Cardinality(EntriesOf(schedules, "Ana")) = 2
    /\ \A i \in EntriesOf(schedules, "Ana") : Called(schedules[i])

\* C30: the report and the migration agree on the status: for every entry
\* of the schedule file, whatever subset of the keys status, isPaid and
\* isDone it carries, the glyph open_email_dialog shows for the entry as it
\* is in the file is get_status_emoji of the isPaid and isDone values the
\* migration of refresh_data gives the entry.
C30_ReportAgreesWithMigration ==
    \A i \in 1..Len(store_schedules) :
        LET e == store_schedules[i]
            migrated == MigrateEntry(e)
        IN  get_status_emoji(ReportPaid(e), ReportDone(e)) =
                get_status_emoji(migrated.isPaid, migrated.isDone)
====
